---- MODULE Spec2Model ----
(***************************************************************************)
(* A model of the document analyzer's two cores:                           *)
(*   - VectorStore (src/vector_store.py): the TF-IDF index over document   *)
(*     chunks, with the session-level upload/remove handlers of src/app.py *)
(*     that drive it;                                                      *)
(*   - NotebookLMMindMapGenerator (src/mindmap_generator.py): the attempt  *)
(*     loop, response processing, validation and node-graph construction.  *)
(*                                                                         *)
(* Texts are modelled by the set of vocabulary terms they contain (what    *)
(* TfidfVectorizer's analyzer keeps of them); a TF-IDF row is modelled by  *)
(* its support, the terms of the text that are in the fitted vocabulary,   *)
(* and cosine similarity by the cosine of the 0/1 vectors, kept as the     *)
(* exact fraction cos^2 = num/den.                                         *)
(***************************************************************************)
EXTENDS Integers, Sequences, FiniteSets, TLC

(* ------------------------------ bounds -------------------------------- *)
MaxDocChunks == 2      \* chunks per doc_info handed to add_document
MaxStoreChunks == 3    \* cap on len(self.chunks) (guards of the add actions)
MaxTopK == 2           \* largest top_k tried by search

\* what the analyzer keeps of a chunk's text: one term, two terms (a document of
\* stop words only, of which it keeps nothing, is among BadDocInfos)
Texts == {{"cats"}, {"cats", "purr"}}
DocNames == {"a.txt", "b.txt"}     \* filenames
TopKs == (-1)..MaxTopK             \* top_k is a Python int: -1 slices from the end
MinScores == {0, 1, 8}             \* min_score in tenths: 0.0, 0.1 (default), 0.8

MaxLines == 2          \* lines of the document text handed to generate_mind_map
MaxThemes == 2         \* themes in a model response
MaxSubtopics == 2      \* subtopics per theme in a model response
MaxDetails == 1        \* details per subtopic in a model response

MaxResults == 3        \* search results handed to the loop of get_context_for_query

MaxTextLen == 4        \* characters of a short text given to _split_into_chunks
MaxChunkSize == 3      \* self.chunk_size for the short texts
MaxOverlap == 2        \* self.chunk_overlap for the short texts
MaxIterations == 5     \* loop iterations of _split_into_chunks that are followed

MaxBodyLen == 3        \* characters between the quotes of a string value of a response
MaxIdLen == 2          \* characters of a node id given by the model
MaxCacheEntries == 2   \* cap on len(st.session_state.cached_analyses)
MaxExtraLength == 120  \* characters by which a sampled document exceeds max_content_length

VARIABLES
    chunks,            \* VectorStore.chunks: list of enhanced chunk dicts
    document_vectors,  \* VectorStore.document_vectors: None or the row matrix
    is_fitted,         \* VectorStore.is_fitted
    vectorizer,        \* VectorStore.vectorizer: whether vocabulary_ exists, and it
    documents,         \* st.session_state.documents: filename -> doc_info, in insertion order
    last,              \* the last call: its name, arguments, return value, printed error
    live,              \* history: filename -> chunks added and not removed since
    removed,           \* history: filenames whose remove_document returned True, not re-added
    max_issued,        \* history: the largest global_index assigned so far (-1: none)
    mm,                \* the mind-map generator: self.nodes, self.edges, and the position,
                       \* gateway calls, accepted structure and return value of generate_mind_map
    sp,                \* DocumentProcessor._split_into_chunks: its arguments, start, chunks
    cx,                \* the last get_context_for_query call: its inputs and the text returned
    js,                \* the last call on a response text: _repair_json_content or
                       \* _process_structured_response, its argument and what it returned
    smp,               \* the last _intelligent_document_sampling call and the length returned
    mz,                \* self.nodes, self.edges and the lines of _create_mermaid_diagram
    cached_analyses,   \* st.session_state.cached_analyses: cache key -> cache entry
    current_personality, \* st.session_state.ai_client.current_personality
    force_regenerate   \* the analysis types whose force_regenerate_* flag is set

storeVars == <<chunks, document_vectors, is_fitted, vectorizer>>
histVars == <<live, removed, max_issued>>
textVars == <<js, smp, mz>>
cacheVars == <<cached_analyses, current_personality, force_regenerate>>
vars == <<chunks, document_vectors, is_fitted, vectorizer, documents, last, live, removed,
          max_issued, mm, sp, cx, js, smp, mz, cached_analyses, current_personality,
          force_regenerate>>

(* ------------------------------ helpers ------------------------------- *)
RECURSIVE SumOver(_, _)
SumOver(f, S) == IF S = {} THEN 0
                 ELSE LET x == CHOOSE y \in S : TRUE IN f[x] + SumOver(f, S \ {x})

Range(s) == {s[i] : i \in 1..Len(s)}

SeqsUpTo(S, n) == UNION {[1..k -> S] : k \in 0..n}

(* ----------------------------- input sets ----------------------------- *)
WellFormedChunks == [kind : {"ok"}, text : Texts]

\* a chunk dict lacking the "text" key, and one whose "text" is not a string
NoTextChunk == [kind |-> "no_text", text |-> {}]

NonStrChunk == [kind |-> "non_str", text |-> {}]

\* doc_info as DocumentProcessor.process_document returns it on success
\* (success True, filename and file_type set, a list of chunk dicts)
GoodDocInfos == [success : {TRUE}, has_meta : {TRUE}, filename : DocNames,
                 chunks : SeqsUpTo(WellFormedChunks, MaxDocChunks) \ {<<>>}]

\* the ways a doc_info can be unusable: not successful, no chunks, no filename,
\* a chunk without text, a chunk whose text is not a string, stop words only
\* (which fit_transform rejects and transform turns into a zero row)
BadDocInfos ==
    LET c == [kind |-> "ok", text |-> {"cats"}]
        d == [success |-> TRUE, has_meta |-> TRUE, filename |-> "a.txt", chunks |-> <<c>>]
    IN {[d EXCEPT !.success = FALSE],
        [d EXCEPT !.chunks = <<>>],
        [d EXCEPT !.has_meta = FALSE],
        [d EXCEPT !.chunks = <<c, NoTextChunk>>],
        [d EXCEPT !.chunks = <<NonStrChunk>>],
        [d EXCEPT !.chunks = <<[kind |-> "ok", text |-> {}]>>, !.filename = "b.txt"]}

DocInfos == GoodDocInfos \cup BadDocInfos

\* a query string: blank (strip() empty), or non-blank with the terms it contains
Queries == [blank : {TRUE}, terms : {{}}] \cup [blank : {FALSE}, terms : Texts \cup {{}}]

(* ------------------------- vectorizer (sklearn) ------------------------ *)
NewVectorizer == [has_vocabulary |-> FALSE, vocabulary_ |-> {}]

NoMatrix == [is_none |-> TRUE, rows |-> <<>>]

Matrix(rows) == [is_none |-> FALSE, rows |-> rows]

ChunkTexts(doc_info) == [i \in 1..Len(doc_info.chunks) |-> doc_info.chunks[i].text]

\* the exception TfidfVectorizer raises on these raw documents, "" if none
VectorizerError(doc_info, fitting) ==
    IF \E i \in 1..Len(doc_info.chunks) : doc_info.chunks[i].kind = "non_str"
    THEN "AttributeError"
    ELSE IF fitting /\ UNION Range(ChunkTexts(doc_info)) = {}
    THEN "ValueError: empty vocabulary"
    ELSE ""

\* vocabulary_ learnt by fit_transform
FitVocabulary(texts) == UNION Range(texts)

\* transform: terms unseen at fit time are dropped
Transform(texts, vocab) == [i \in 1..Len(texts) |-> texts[i] \cap vocab]

(* --------------------------- add_document ------------------------------ *)
\* enhanced_chunks of add_document
EnhancedChunks(doc_info, store_chunks) ==
    [i \in 1..Len(doc_info.chunks) |->
        [text |-> doc_info.chunks[i].text,
         document_name |-> doc_info.filename,
         global_index |-> Len(store_chunks) + (i - 1)]]

\* the exception add_document catches before it touches the store, "" if none
AddError(doc_info, fitted) ==
    IF \E i \in 1..Len(doc_info.chunks) : doc_info.chunks[i].kind = "no_text"
    THEN "KeyError: text"
    ELSE IF ~doc_info.has_meta THEN "KeyError: filename"
    ELSE VectorizerError(doc_info, ~fitted)

\* vstack([old, new]) and list.extend: the new entries go behind the old ones
Prepended(old, new) == new \o old

Appended(old, new) == old \o new

\* add_document as it would be if it extended self.chunks before transforming
AddResultExtendFirst(s, doc_info) ==
    IF ~doc_info.success \/ Len(doc_info.chunks) = 0
    THEN [store |-> s, ok |-> FALSE, err |-> "", fit |-> FALSE]
    ELSE IF AddError(doc_info, s.is_fitted) \in {"KeyError: text", "KeyError: filename"}
    THEN [store |-> s, ok |-> FALSE, err |-> AddError(doc_info, s.is_fitted), fit |-> FALSE]
    ELSE IF AddError(doc_info, s.is_fitted) # ""
    THEN [store |-> [s EXCEPT !.chunks = Appended(s.chunks, EnhancedChunks(doc_info, s.chunks))],
          ok |-> FALSE, err |-> AddError(doc_info, s.is_fitted), fit |-> FALSE]
    ELSE IF ~s.is_fitted
    THEN LET vocab == FitVocabulary(ChunkTexts(doc_info)) IN
         [store |-> [chunks |-> EnhancedChunks(doc_info, s.chunks),
                     document_vectors |-> Matrix(Transform(ChunkTexts(doc_info), vocab)),
                     is_fitted |-> TRUE,
                     vectorizer |-> [has_vocabulary |-> TRUE, vocabulary_ |-> vocab]],
          ok |-> TRUE, err |-> "", fit |-> TRUE]
    ELSE LET new_vectors == Transform(ChunkTexts(doc_info), s.vectorizer.vocabulary_) IN
         [store |-> [chunks |-> Appended(s.chunks, EnhancedChunks(doc_info, s.chunks)),
                     document_vectors |-> Matrix(Appended(s.document_vectors.rows, new_vectors)),
                     is_fitted |-> TRUE,
                     vectorizer |-> s.vectorizer],
          ok |-> TRUE, err |-> "", fit |-> FALSE]

\* add_document as it would be if it called fit_transform on every document
AddResultAlwaysFit(s, doc_info) ==
    IF ~doc_info.success \/ Len(doc_info.chunks) = 0
    THEN [store |-> s, ok |-> FALSE, err |-> "", fit |-> FALSE]
    ELSE IF AddError(doc_info, FALSE) # ""
    THEN [store |-> s, ok |-> FALSE, err |-> AddError(doc_info, FALSE), fit |-> FALSE]
    ELSE LET vocab == FitVocabulary(ChunkTexts(doc_info)) IN
         [store |-> [chunks |-> Appended(s.chunks, EnhancedChunks(doc_info, s.chunks)),
                     document_vectors |->
                        Matrix(Appended(s.document_vectors.rows,
                                        Transform(ChunkTexts(doc_info), vocab))),
                     is_fitted |-> TRUE,
                     vectorizer |-> [has_vocabulary |-> TRUE, vocabulary_ |-> vocab]],
          ok |-> TRUE, err |-> "", fit |-> TRUE]

\* the store after add_document(doc_info) and what the call returns
\* s = [chunks, document_vectors, is_fitted, vectorizer]
AddResult(s, doc_info) ==
    IF ~doc_info.success \/ Len(doc_info.chunks) = 0
    THEN [store |-> s, ok |-> FALSE, err |-> "", fit |-> FALSE]
    ELSE IF AddError(doc_info, s.is_fitted) # ""
    THEN [store |-> s, ok |-> FALSE, err |-> AddError(doc_info, s.is_fitted), fit |-> FALSE]
    ELSE IF ~s.is_fitted
    THEN LET vocab == FitVocabulary(ChunkTexts(doc_info)) IN
         [store |-> [chunks |-> EnhancedChunks(doc_info, s.chunks),
                     document_vectors |-> Matrix(Transform(ChunkTexts(doc_info), vocab)),
                     is_fitted |-> TRUE,
                     vectorizer |-> [has_vocabulary |-> TRUE, vocabulary_ |-> vocab]],
          ok |-> TRUE, err |-> "", fit |-> TRUE]
    ELSE LET new_vectors == Transform(ChunkTexts(doc_info), s.vectorizer.vocabulary_) IN
         [store |-> [chunks |-> Appended(s.chunks, EnhancedChunks(doc_info, s.chunks)),
                     document_vectors |->
                        IF ~s.document_vectors.is_none
                        THEN Matrix(Appended(s.document_vectors.rows, new_vectors))
                        ELSE Matrix(new_vectors),
                     is_fitted |-> TRUE,
                     vectorizer |-> s.vectorizer],
          ok |-> TRUE, err |-> "", fit |-> FALSE]

Store == [chunks |-> chunks, document_vectors |-> document_vectors,
          is_fitted |-> is_fitted, vectorizer |-> vectorizer]

SetStore(s) ==
    /\ chunks' = s.chunks
    /\ document_vectors' = s.document_vectors
    /\ is_fitted' = s.is_fitted
    /\ vectorizer' = s.vectorizer

\* the record of a call: fit = a fit_transform completed during it;
\* add_on_empty = add_document was called while the index held no chunks
Call(op, name, ok, err, fit, add_on_empty) ==
    [op |-> op, name |-> name, ok |-> ok, err |-> err, fit |-> fit,
     add_on_empty |-> add_on_empty]

MaxOf(S, dflt) == IF S = {} THEN dflt ELSE CHOOSE x \in S : \A y \in S : y <= x

\* the store with the history variables, threaded through the calls of a handler
Context == [store |-> Store, live |-> live, removed |-> removed, max_issued |-> max_issued,
            ok |-> FALSE, err |-> "", fit |-> FALSE, add_on_empty |-> FALSE]

SetContext(c) ==
    /\ SetStore(c.store)
    /\ live' = c.live
    /\ removed' = c.removed
    /\ max_issued' = c.max_issued

\* one add_document call
AddTo(c, doc_info) ==
    LET r == AddResult(c.store, doc_info)
        n == Len(doc_info.chunks)
    IN [store |-> r.store,
        live |-> IF r.ok THEN [c.live EXCEPT ![doc_info.filename] = @ + n] ELSE c.live,
        removed |-> IF r.ok THEN c.removed \ {doc_info.filename} ELSE c.removed,
        max_issued |-> IF r.ok
                       THEN MaxOf({c.max_issued} \cup {Len(c.store.chunks) + (i - 1) : i \in 1..n},
                                  c.max_issued)
                       ELSE c.max_issued,
        ok |-> r.ok, err |-> r.err,
        fit |-> c.fit \/ r.fit,
        add_on_empty |-> c.add_on_empty \/ Len(c.store.chunks) = 0]

AddDocument(doc_info) ==
    /\ Len(chunks) + Len(doc_info.chunks) <= MaxStoreChunks
    /\ LET c == AddTo(Context, doc_info) IN
        /\ SetContext(c)
        /\ last' = Call("add_document", doc_info.filename, c.ok, c.err, c.fit, c.add_on_empty)
    /\ UNCHANGED <<documents, mm, sp, cx, textVars, cacheVars>>

(* ------------------------------ clear ---------------------------------- *)
ClearedStore == [chunks |-> <<>>, document_vectors |-> NoMatrix,
                 is_fitted |-> FALSE, vectorizer |-> NewVectorizer]

Clear ==
    /\ SetStore(ClearedStore)
    /\ last' = Call("clear", "", TRUE, "", FALSE, FALSE)
    /\ live' = [n \in DocNames |-> 0]
    /\ UNCHANGED <<documents, removed, max_issued, mm, sp, cx, textVars, cacheVars>>

(* --------------------------- remove_document --------------------------- *)
\* indices_to_remove of remove_document
IndicesToRemove(store_chunks, document_name) ==
    {i \in 1..Len(store_chunks) : store_chunks[i].document_name = document_name}

\* s with the entries at the positions in drop left out (the list comprehension
\* over self.chunks, the boolean mask over the matrix rows)
RECURSIVE Without(_, _, _)
Without(s, drop, i) ==
    IF i > Len(s) THEN <<>>
    ELSE IF i \in drop THEN Without(s, drop, i + 1)
    ELSE <<s[i]>> \o Without(s, drop, i + 1)

\* remove_document as it would be if it dropped only the first chunk it finds
RemoveResultFirstOnly(s, document_name) ==
    IF ~s.is_fitted THEN [store |-> s, ok |-> FALSE]
    ELSE LET all == IndicesToRemove(s.chunks, document_name) IN
         IF all = {} THEN [store |-> s, ok |-> FALSE]
         ELSE LET idx == {CHOOSE i \in all : \A j \in all : i <= j}
                  kept == Without(s.chunks, idx, 1)
              IN IF Len(kept) = 0
                 THEN [store |-> ClearedStore, ok |-> TRUE]
                 ELSE [store |-> [s EXCEPT !.chunks = kept,
                                           !.document_vectors =
                                               Matrix(Without(s.document_vectors.rows, idx, 1))],
                       ok |-> TRUE]

\* remove_document as it would be if it left the matrix rows in place
RemoveResultKeepRows(s, document_name) ==
    IF ~s.is_fitted THEN [store |-> s, ok |-> FALSE]
    ELSE LET idx == IndicesToRemove(s.chunks, document_name) IN
         IF idx = {} THEN [store |-> s, ok |-> FALSE]
         ELSE LET kept == Without(s.chunks, idx, 1)
              IN IF Len(kept) = 0
                 THEN [store |-> ClearedStore, ok |-> TRUE]
                 ELSE [store |-> [s EXCEPT !.chunks = kept], ok |-> TRUE]

RemoveResult(s, document_name) ==
    IF ~s.is_fitted THEN [store |-> s, ok |-> FALSE]
    ELSE LET idx == IndicesToRemove(s.chunks, document_name) IN
         IF idx = {} THEN [store |-> s, ok |-> FALSE]
         ELSE LET kept == Without(s.chunks, idx, 1)
                  vecs == IF ~s.document_vectors.is_none
                          THEN Matrix(Without(s.document_vectors.rows, idx, 1))
                          ELSE s.document_vectors
              IN IF Len(kept) = 0
                 THEN [store |-> ClearedStore, ok |-> TRUE]
                 ELSE [store |-> [s EXCEPT !.chunks = kept, !.document_vectors = vecs],
                       ok |-> TRUE]

RemoveDocument(document_name) ==
    /\ LET r == RemoveResult(Store, document_name) IN
        /\ SetStore(r.store)
        /\ last' = Call("remove_document", document_name, r.ok, "", FALSE, FALSE)
        /\ live' = IF r.ok THEN [live EXCEPT ![document_name] = 0] ELSE live
        /\ removed' = IF r.ok THEN removed \cup {document_name} ELSE removed
    /\ UNCHANGED <<documents, max_issued, mm, sp, cx, textVars, cacheVars>>

(* ------------------------------- search -------------------------------- *)
\* cosine similarity of the query vector and a row, as the fraction <<num, den>>
\* of its square (the vectors are non-negative, so the order is the same);
\* a zero vector has similarity 0
CosineSimilarity(query_vector, row) ==
    IF query_vector = {} \/ row = {} THEN <<0, 1>>
    ELSE <<Cardinality(query_vector \cap row) * Cardinality(query_vector \cap row),
           Cardinality(query_vector) * Cardinality(row)>>

\* score >= min_score, min_score given in tenths
ScoreAtLeast(score, tenths) ==
    IF tenths <= 0 THEN TRUE
    ELSE 100 * score[1] >= tenths * tenths * score[2]

ScoreGreater(a, b) == a[1] * b[2] > b[1] * a[2]

\* the results list before sorting: one entry per row with score >= min_score;
\* row is the position of the chunk object the entry refers to
RECURSIVE Matching(_, _, _, _, _)
Matching(store_chunks, rows, query_vector, min_score, i) ==
    IF i > Len(rows) THEN <<>>
    ELSE LET score == CosineSimilarity(query_vector, rows[i])
             rest == Matching(store_chunks, rows, query_vector, min_score, i + 1)
         IN IF ScoreAtLeast(score, min_score)
            THEN <<[row |-> i, chunk |-> store_chunks[i],
                    similarity_score |-> score, rank |-> 0]>> \o rest
            ELSE rest

\* an unstable descending sort: an entry goes in front of entries of equal score
RECURSIVE InsertSortedUnstable(_, _)
InsertSortedUnstable(sorted, x) ==
    IF sorted = <<>> THEN <<x>>
    ELSE IF ~ScoreGreater(Head(sorted).similarity_score, x.similarity_score)
    THEN <<x>> \o sorted
    ELSE <<Head(sorted)>> \o InsertSortedUnstable(Tail(sorted), x)

\* list.sort(key=similarity_score, reverse=True): stable, so an entry goes
\* behind every entry whose score is not smaller
RECURSIVE InsertSorted(_, _)
InsertSorted(sorted, x) ==
    IF sorted = <<>> THEN <<x>>
    ELSE IF ScoreGreater(x.similarity_score, Head(sorted).similarity_score)
    THEN <<x>> \o sorted
    ELSE <<Head(sorted)>> \o InsertSorted(Tail(sorted), x)

RECURSIVE SortResults(_, _)
SortResults(results, n) ==
    IF n = 0 THEN <<>> ELSE InsertSorted(SortResults(results, n - 1), results[n])

\* results[:top_k] with Python's slice semantics
SliceTo(results, top_k) ==
    LET n == Len(results)
        stop == IF top_k >= 0 THEN (IF top_k < n THEN top_k ELSE n)
                ELSE (IF n + top_k > 0 THEN n + top_k ELSE 0)
    IN SubSeq(results, 1, stop)

SearchResult(s, query, top_k, min_score) ==
    IF ~s.is_fitted \/ query.blank THEN <<>>
    ELSE LET query_vector == query.terms \cap s.vectorizer.vocabulary_
             results == Matching(s.chunks, s.document_vectors.rows, query_vector, min_score, 1)
             sorted == SortResults(results, Len(results))
             top == SliceTo(sorted, top_k)
         IN [i \in 1..Len(top) |-> [top[i] EXCEPT !.rank = i]]

(* ---------------------------- get_statistics --------------------------- *)
GetStatistics(s) ==
    IF ~s.is_fitted
    THEN [total_chunks |-> 0, total_documents |-> 0, vocabulary_size |-> 0, is_ready |-> FALSE]
    ELSE [total_chunks |-> Len(s.chunks),
          total_documents |-> Cardinality({s.chunks[i].document_name : i \in 1..Len(s.chunks)}),
          vocabulary_size |-> IF s.vectorizer.has_vocabulary
                              THEN Cardinality(s.vectorizer.vocabulary_) ELSE 0,
          is_ready |-> TRUE]

(* ==================== session handlers (src/app.py) ==================== *)
\* what DocumentProcessor.process_document returns for a file: success with
\* the chunks of its text (none for an empty text, one of stop words only
\* for such a text), or failure with no chunks
ProcessedDocuments ==
    GoodDocInfos
    \cup [success : BOOLEAN, has_meta : {TRUE}, filename : DocNames, chunks : {<<>>}]
    \cup [success : {TRUE}, has_meta : {TRUE}, filename : DocNames,
          chunks : {<<[kind |-> "ok", text |-> {}]>>}]

Filenames(docs) == {docs[i].filename : i \in 1..Len(docs)}

RECURSIVE TotalChunks(_, _)
TotalChunks(docs, n) == IF n = 0 THEN 0 ELSE Len(docs[n].chunks) + TotalChunks(docs, n - 1)

\* upload_document with a file chosen in the uploader
UploadDocument(doc_result) ==
    /\ TotalChunks(documents, Len(documents)) + Len(doc_result.chunks) <= MaxStoreChunks
    /\ IF doc_result.filename \notin Filenames(documents)
       THEN /\ documents' = Append(documents, doc_result)
            /\ IF doc_result.success
               THEN LET c == AddTo(Context, doc_result) IN
                    /\ SetContext(c)
                    /\ last' = Call("upload_document", doc_result.filename, c.ok, c.err,
                                    c.fit, c.add_on_empty)
               ELSE /\ last' = Call("upload_document", doc_result.filename, FALSE, "",
                                    FALSE, FALSE)
                    /\ UNCHANGED <<storeVars, histVars>>
       ELSE /\ last' = Call("upload_document", doc_result.filename, FALSE,
                            "already uploaded", FALSE, FALSE)
            /\ UNCHANGED <<storeVars, histVars, documents>>
    /\ UNCHANGED <<mm, sp, cx, textVars, cacheVars>>

\* the loop of remove_document over the remaining documents
RECURSIVE Rebuild(_, _, _)
Rebuild(c, docs, i) ==
    IF i > Len(docs) THEN c
    ELSE Rebuild(IF docs[i].success THEN AddTo(c, docs[i]) ELSE c, docs, i + 1)

\* remove_document(filename) of app.py: delete the entry, clear the store,
\* add the remaining documents again
AppRemoveDocument(filename) ==
    /\ IF filename \in Filenames(documents)
       THEN LET remaining == SelectSeq(documents, LAMBDA d : d.filename # filename)
                cleared == [Context EXCEPT !.store = ClearedStore,
                                           !.live = [n \in DocNames |-> 0]]
                c == Rebuild(cleared, remaining, 1)
            IN /\ documents' = remaining
               /\ SetContext(c)
               /\ last' = Call("app_remove_document", filename, TRUE, "", c.fit, c.add_on_empty)
       ELSE /\ last' = Call("app_remove_document", filename, FALSE, "not found", FALSE, FALSE)
            /\ UNCHANGED <<storeVars, histVars, documents>>
    /\ UNCHANGED <<mm, sp, cx, textVars, cacheVars>>

(* ======================= mind-map generator ============================ *)
MaxAttempts == 3            \* for attempt in range(3)
FallbackMaxLines == 100     \* lines[:100]
FallbackMaxThemes == 5      \* if len(themes) >= 5: break
FallbackSubtopicsPerTheme == 3
ThemeNameMax == 40          \* theme_data["name"][:40]
SubtopicNameMax == 30
DetailNameMax == 25
FallbackThemeSummaryMax == 30       \* f"Analysis of {line.strip()[:30]}"
FallbackSubtopicSummaryMax == 20    \* f"Details about {line.strip()[:20]}"

\* A node id is modelled by <<level, theme, subtopic, detail>>: "root" is
\* <<0,0,0,0>>, "theme_2" <<1,2,0,0>>, "theme_2_sub_1" <<2,2,1,0>>,
\* "theme_2_sub_1_det_3" <<3,2,1,3>>; a 0 in the theme position of a lower
\* level stands for an id that does not name its parent ("sub_1", "det_1").
RootId == <<0, 0, 0, 0>>

\* a line of the document text: its length and the length of line.strip()
LineKinds == {[len |-> 12, strip |-> 0],      \* whitespace only
              [len |-> 50, strip |-> 44],     \* a heading-sized line
              [len |-> 120, strip |-> 120]}   \* a long paragraph line

\* document_text.split('\n'): at least one line
DocumentTexts == SeqsUpTo(LineKinds, MaxLines) \ {<<>>}

\* document_text.strip() is empty
IsBlank(document_text) == \A i \in 1..Len(document_text) : document_text[i].strip = 0

RequiredFields == {"id", "name", "summary"}

\* len(summary) of the entries of a response: the last theme carries a long one
LongSummaryLen == 2000

ThemeSummaryLen(i, nt) == IF i = nt THEN LongSummaryLen ELSE 150

SubtopicSummaryLen == 90

DetailSummaryLen == 45

\* how the ids of a response are chosen: all distinct; every theme "theme_1";
\* subtopics and details numbered within their parent only; first theme "root"
IdSchemes == {"distinct", "same_theme", "per_parent", "root"}

ThemeId(ids, i) ==
    IF ids = "same_theme" THEN <<1, 1, 0, 0>>
    ELSE IF ids = "root" /\ i = 1 THEN RootId
    ELSE <<1, i, 0, 0>>

SubtopicId(ids, i, j) == IF ids = "per_parent" THEN <<2, 0, j, 0>> ELSE <<2, i, j, 0>>

DetailId(ids, i, j, k) == IF ids = "per_parent" THEN <<3, 0, 0, k>> ELSE <<3, i, j, k>>

\* what can be wrong with the fields of a response
Defects == {"none", "no_main_themes", "themes_not_list", "theme_not_dict",
            "theme_no_summary", "subtopic_not_dict", "subtopic_no_name", "detail_no_id"}

\* the JSON values of a response with nt themes, ns subtopics per theme and
\* nd details per subtopic; a defect sits in the last entry of its level
DetailData(ids, defect, i, j, k, nd) ==
    [is_dict |-> TRUE,
     keys |-> IF defect = "detail_no_id" /\ k = nd
              THEN {"name", "summary"} ELSE {"id", "name", "summary"},
     id |-> DetailId(ids, i, j, k),
     name_len |-> 28,
     summary_len |-> DetailSummaryLen]

SubtopicData(ids, defect, i, j, ns, nd) ==
    [is_dict |-> ~(defect = "subtopic_not_dict" /\ j = ns),
     keys |-> IF defect = "subtopic_no_name" /\ j = ns
              THEN {"id", "summary", "details"} ELSE {"id", "name", "summary", "details"},
     id |-> SubtopicId(ids, i, j),
     name_len |-> 35,
     summary_len |-> SubtopicSummaryLen,
     details |-> [k \in 1..nd |-> DetailData(ids, defect, i, j, k, nd)]]

ThemeData(ids, defect, i, nt, ns, nd) ==
    [is_dict |-> ~(defect = "theme_not_dict" /\ i = nt),
     keys |-> IF defect = "theme_no_summary" /\ i = nt
              THEN {"id", "name", "subtopics"} ELSE {"id", "name", "summary", "subtopics"},
     id |-> ThemeId(ids, i),
     name_len |-> 60,
     summary_len |-> ThemeSummaryLen(i, nt),
     subtopics |-> [j \in 1..ns |-> SubtopicData(ids, defect, i, j, ns, nd)]]

StructuredData(nt, ns, nd, ids, defect) ==
    [has_main_themes |-> defect # "no_main_themes",
     themes_is_list |-> defect # "themes_not_list",
     main_themes |-> [i \in 1..nt |-> ThemeData(ids, defect, i, nt, ns, nd)],
     connections |-> <<>>]

\* the "connections" of a response: between two themes of it, from a theme to
\* an id the response does not have, and between two ids it does not have
Connections ==
    {<<[from |-> <<1, 1, 0, 0>>, to |-> <<1, 2, 0, 0>>]>>,
     <<[from |-> <<1, 1, 0, 0>>, to |-> <<1, MaxThemes + 1, 0, 0>>]>>,
     <<[from |-> <<1, MaxThemes + 1, 0, 0>>, to |-> <<1, MaxThemes + 2, 0, 0>>],
       [from |-> <<1, 2, 0, 0>>, to |-> <<1, 1, 0, 0>>]>>}

ConnectedOutputs ==
    {[StructuredData(MaxThemes, 1, 0, "distinct", "none") EXCEPT !.connections = c] :
        c \in Connections}

\* responses with more children than the prompt asks for: one theme with 7
\* subtopics, and one subtopic with 5 details
WideOutputs == {StructuredData(1, 7, 0, "distinct", "none"),
                StructuredData(1, 1, 5, "distinct", "none")}

ModelOutputs ==
    {StructuredData(nt, ns, nd, ids, "none") :
        nt \in 0..MaxThemes, ns \in 0..MaxSubtopics, nd \in 0..MaxDetails, ids \in IdSchemes}
    \cup {StructuredData(MaxThemes, MaxSubtopics, MaxDetails, "distinct", defect) :
            defect \in Defects}
    \cup WideOutputs
    \cup ConnectedOutputs

NoData == StructuredData(0, 0, 0, "distinct", "none")

\* the content of a transport-level success:
\*   prose       no "{" at all                      (ValueError in _clean_json_response)
\*   unbalanced  a "{" that is never closed         (ValueError in _clean_json_response)
\*   bad_json    a balanced {...} that json.loads rejects and the repair does not mend
\*   repairable  a bare object json.loads rejects and the repair mends
\*   json        an object json.loads accepts
GarbageKinds == {"prose", "unbalanced", "bad_json"}

Contents == [kind : GarbageKinds, data : {NoData}]
            \cup [kind : {"repairable", "json"}, data : ModelOutputs]

\* what _make_api_request does: raises, reports failure, or returns content
Responses == [outcome : {"raise", "failure"}, content : {[kind |-> "prose", data |-> NoData]}]
             \cup [outcome : {"success"}, content : Contents]

(* ------------------------ _validate_structured_data -------------------- *)
ValidateStructuredData(data) ==
    /\ data.has_main_themes
    /\ data.themes_is_list
    /\ \A i \in 1..Len(data.main_themes) :
        LET theme == data.main_themes[i] IN
        /\ theme.is_dict
        /\ RequiredFields \subseteq theme.keys
        /\ "subtopics" \in theme.keys =>
            \A j \in 1..Len(theme.subtopics) :
                /\ theme.subtopics[j].is_dict
                /\ RequiredFields \subseteq theme.subtopics[j].keys

(* ------------------------ _process_structured_response ----------------- *)
ErrorData(message) == [is_error |-> TRUE, error |-> message, data |-> NoData]

GoodData(data) == [is_error |-> FALSE, error |-> "", data |-> data]

ProcessStructuredResponse(content) ==
    IF content.kind \in {"prose", "unbalanced"}
    THEN ErrorData("Structure processing error")
    ELSE IF content.kind = "bad_json" THEN ErrorData("JSON processing failed")
    ELSE IF content.kind = "repairable"
    THEN IF ValidateStructuredData(content.data) THEN GoodData(content.data)
         ELSE ErrorData("JSON processing failed")
    ELSE IF ValidateStructuredData(content.data) THEN GoodData(content.data)
         ELSE ErrorData("Failed to validate structured data")

\* bool(structured_data): both the error dict and an accepted dict are non-empty
Truthy(structured_data) == structured_data.is_error \/ structured_data.data.has_main_themes

(* ------------------------ _fallback_structure_extraction --------------- *)
MinLen(a, b) == IF a < b THEN a ELSE b

\* the loop over lines[:100]; f = [themes, done]
RECURSIVE FallbackScan(_, _, _)
FallbackScan(f, lines, n) ==
    IF n > Len(lines) \/ n > FallbackMaxLines \/ f.done THEN f.themes
    ELSE LET line == lines[n]
             nthemes == Len(f.themes)
             themes ==
                IF line.len > 10 /\ line.len < 100
                THEN IF nthemes = 0
                        \/ Len(f.themes[nthemes].subtopics) >= FallbackSubtopicsPerTheme
                     THEN Append(f.themes,
                            [is_dict |-> TRUE,
                             keys |-> {"id", "name", "summary", "subtopics"},
                             id |-> <<1, nthemes + 1, 0, 0>>,
                             name_len |-> MinLen(line.strip, ThemeNameMax),
                             summary_len |->
                                12 + MinLen(line.strip, FallbackThemeSummaryMax),
                             subtopics |-> <<>>])
                     ELSE [f.themes EXCEPT ![nthemes].subtopics =
                            Append(@, [is_dict |-> TRUE,
                                       keys |-> {"id", "name", "summary", "details"},
                                       id |-> <<2, nthemes, Len(@) + 1, 0>>,
                                       name_len |-> MinLen(line.strip, SubtopicNameMax),
                                       summary_len |->
                                          14 + MinLen(line.strip, FallbackSubtopicSummaryMax),
                                       details |-> <<>>])]
                ELSE f.themes
         IN FallbackScan([themes |-> themes, done |-> Len(themes) >= FallbackMaxThemes],
                         lines, n + 1)

FallbackNoDefaultTheme(document_text) ==
    GoodData([has_main_themes |-> TRUE,
              themes_is_list |-> TRUE,
              main_themes |-> FallbackScan([themes |-> <<>>, done |-> FALSE],
                                           document_text, 1),
              connections |-> <<>>])

FallbackStructureExtraction(document_text) ==
    LET themes == FallbackScan([themes |-> <<>>, done |-> FALSE], document_text, 1) IN
    GoodData([has_main_themes |-> TRUE,
              themes_is_list |-> TRUE,
              main_themes |-> IF themes = <<>>
                              THEN <<[is_dict |-> TRUE,
                                      keys |-> {"id", "name", "summary", "subtopics"},
                                      id |-> <<1, 1, 0, 0>>,
                                      name_len |-> 17,
                                      summary_len |-> 40,
                                      subtopics |-> <<>>]>>
                              ELSE themes,
              connections |-> <<>>])

(* ------------------------------ _build_node_graph ---------------------- *)
\* self.nodes[node.id] = node: a dict keeps one entry per key, in first-insertion order
PutNode(nodes, node) ==
    IF \E i \in 1..Len(nodes) : nodes[i].id = node.id
    THEN [i \in 1..Len(nodes) |-> IF nodes[i].id = node.id THEN node ELSE nodes[i]]
    ELSE Append(nodes, node)

MindMapNode(id, name_len, summary_len, level, parent_id, node_type) ==
    [id |-> id, name_len |-> name_len, summary_len |-> summary_len, level |-> level,
     parent_id |-> parent_id, node_type |-> node_type]

CreateThemeNode(theme_data, parent_id) ==
    MindMapNode(theme_data.id, MinLen(theme_data.name_len, ThemeNameMax),
                theme_data.summary_len, 1, parent_id, "theme")

CreateSubtopicNodeUnclamped(subtopic_data, parent_id) ==
    MindMapNode(subtopic_data.id, subtopic_data.name_len, subtopic_data.summary_len, 2,
                parent_id, "subtopic")

CreateSubtopicNode(subtopic_data, parent_id) ==
    MindMapNode(subtopic_data.id, MinLen(subtopic_data.name_len, SubtopicNameMax),
                subtopic_data.summary_len, 2, parent_id, "subtopic")

CreateDetailNode(detail_data, parent_id) ==
    MindMapNode(detail_data.id, MinLen(detail_data.name_len, DetailNameMax),
                detail_data.summary_len, 3, parent_id, "detail")

ContainsEdge(from, to) == [from |-> from, to |-> to, relationship |-> "contains"]

\* g = [nodes, edges, raised]; raised: a KeyError/TypeError left the loops
Raised(g) == [g EXCEPT !.raised = TRUE]

WithNode(g, node, parent_id) ==
    [nodes |-> PutNode(g.nodes, node),
     edges |-> Append(g.edges, ContainsEdge(parent_id, node.id)),
     raised |-> FALSE]

RECURSIVE AddDetails(_, _, _, _)
AddDetails(g, details, parent_id, k) ==
    IF g.raised \/ k > Len(details) THEN g
    ELSE IF ~(details[k].is_dict /\ RequiredFields \subseteq details[k].keys) THEN Raised(g)
    ELSE AddDetails(WithNode(g, CreateDetailNode(details[k], parent_id), parent_id),
                    details, parent_id, k + 1)

RECURSIVE AddSubtopics(_, _, _, _)
AddSubtopics(g, subtopics, parent_id, j) ==
    IF g.raised \/ j > Len(subtopics) THEN g
    ELSE IF ~(subtopics[j].is_dict /\ RequiredFields \subseteq subtopics[j].keys) THEN Raised(g)
    ELSE LET node == CreateSubtopicNode(subtopics[j], parent_id) IN
         AddSubtopics(AddDetails(WithNode(g, node, parent_id),
                                 IF "details" \in subtopics[j].keys
                                 THEN subtopics[j].details ELSE <<>>,
                                 node.id, 1),
                      subtopics, parent_id, j + 1)

RECURSIVE AddThemes(_, _, _)
AddThemes(g, themes, i) ==
    IF g.raised \/ i > Len(themes) THEN g
    ELSE IF ~(themes[i].is_dict /\ RequiredFields \subseteq themes[i].keys) THEN Raised(g)
    ELSE LET node == CreateThemeNode(themes[i], RootId) IN
         AddThemes(AddSubtopics(WithNode(g, node, RootId),
                                IF "subtopics" \in themes[i].keys
                                THEN themes[i].subtopics ELSE <<>>,
                                node.id, 1),
                   themes, i + 1)

\* parent_id of the root: None
NoParent == <<>>

\* the cross-connections whose two ends are both in self.nodes
CrossEdges(nodes, connections) ==
    LET ids == {nodes[i].id : i \in 1..Len(nodes)}
        Known(c) == c.from \in ids /\ c.to \in ids
        kept == SelectSeq(connections, Known)
    IN [i \in 1..Len(kept) |->
           [from |-> kept[i].from, to |-> kept[i].to, relationship |-> "relates_to"]]

BuildNodeGraph(data) ==
    LET g == AddThemes([nodes |-> <<MindMapNode(RootId, 17, 30, 0, NoParent, "root")>>,
                        edges |-> <<>>, raised |-> FALSE],
                       data.main_themes, 1)
    IN IF g.raised THEN g
       ELSE [g EXCEPT !.edges = @ \o CrossEdges(g.nodes, data.connections)]

(* ------------------------------ generate_mind_map ---------------------- *)
NoResult == [kind |-> "none", error |-> ""]

ErrorResult(message) == [kind |-> "error", error |-> message]

OutlineResult == [kind |-> "outline", error |-> ""]

MMInit == [pc |-> "idle", document_text |-> <<>>, attempt |-> 0, calls |-> <<>>,
           responses |-> <<>>, used_fallback |-> FALSE, structured |-> NoData,
           nodes |-> <<>>, edges |-> <<>>, result |-> NoResult]

\* the rest of generate_mind_map once _extract_structured_data has returned
Finish(m, structured_data) ==
    IF structured_data.is_error
    THEN [m EXCEPT !.pc = "done",
                   !.result = ErrorResult("Failed to extract structured data from document")]
    ELSE LET g == BuildNodeGraph(structured_data.data) IN
         [m EXCEPT !.pc = "done",
                   !.structured = structured_data.data,
                   !.nodes = g.nodes,
                   !.edges = g.edges,
                   !.result = IF g.raised THEN ErrorResult("KeyError") ELSE OutlineResult]

\* generate_mind_map(document_text) up to its first gateway call
GenerateMindMap(document_text) ==
    /\ mm.pc = "idle"
    /\ mm' = IF IsBlank(document_text)
             THEN [mm EXCEPT !.pc = "done", !.document_text = document_text,
                             !.result = ErrorResult("No document content provided")]
             ELSE [mm EXCEPT !.pc = "attempt", !.document_text = document_text,
                             !.attempt = 0]
    /\ UNCHANGED <<storeVars, documents, last, histVars, sp, cx, textVars, cacheVars>>

\* the content parses to an object of the expected shape in which a theme, a
\* subtopic or a detail lacks one of "id", "name", "summary"
MissingField(content) ==
    /\ content.kind \in {"repairable", "json"}
    /\ content.data.has_main_themes
    /\ content.data.themes_is_list
    /\ \A i \in 1..Len(content.data.main_themes) :
          /\ content.data.main_themes[i].is_dict
          /\ \A j \in 1..Len(content.data.main_themes[i].subtopics) :
                content.data.main_themes[i].subtopics[j].is_dict
    /\ \E i \in 1..Len(content.data.main_themes) :
          LET theme == content.data.main_themes[i] IN
          \/ ~(RequiredFields \subseteq theme.keys)
          \/ \E j \in 1..Len(theme.subtopics) :
                \/ ~(RequiredFields \subseteq theme.subtopics[j].keys)
                \/ \E k \in 1..Len(theme.subtopics[j].details) :
                      ~(RequiredFields \subseteq theme.subtopics[j].details[k].keys)

\* the attempt loop without the return at line 200: the loop goes on to its
\* third pass whatever _process_structured_response gave
AttemptWithoutReturn(response) ==
    /\ mm.pc = "attempt"
    /\ LET structured_data == ProcessStructuredResponse(response.content)
           called == [mm EXCEPT
                        !.calls = Append(@, [temperature |-> 1 + mm.attempt,
                                             max_tokens |-> 5000 + 1000 * mm.attempt]),
                        !.responses = Append(@, [outcome |-> response.outcome,
                                                 kind |-> response.content.kind,
                                                 rejected |-> response.outcome = "success"
                                                              /\ structured_data.is_error,
                                                 missing_field |->
                                                    response.outcome = "success"
                                                    /\ MissingField(response.content)])]
       IN mm' = IF mm.attempt + 1 < MaxAttempts
                THEN [called EXCEPT !.attempt = mm.attempt + 1]
                ELSE IF response.outcome = "success" /\ Truthy(structured_data)
                THEN Finish(called, structured_data)
                ELSE Finish([called EXCEPT !.attempt = mm.attempt + 1, !.used_fallback = TRUE],
                            FallbackStructureExtraction(mm.document_text))
    /\ UNCHANGED <<storeVars, documents, last, histVars, sp, cx, textVars, cacheVars>>

\* one pass of the attempt loop: the gateway call with this attempt's
\* parameters, the processing of its response, and on leaving the loop the
\* fallback and the rest of generate_mind_map
Attempt(response) ==
    /\ mm.pc = "attempt"
    /\ LET structured_data == ProcessStructuredResponse(response.content)
           called == [mm EXCEPT
                        !.calls = Append(@, [temperature |-> 1 + mm.attempt,
                                             max_tokens |-> 5000 + 1000 * mm.attempt]),
                        !.responses = Append(@, [outcome |-> response.outcome,
                                                 kind |-> response.content.kind,
                                                 rejected |-> response.outcome = "success"
                                                              /\ structured_data.is_error,
                                                 missing_field |->
                                                    response.outcome = "success"
                                                    /\ MissingField(response.content)])]
       IN mm' = IF response.outcome = "success" /\ Truthy(structured_data)
                THEN Finish(called, structured_data)
                ELSE IF mm.attempt + 1 < MaxAttempts
                THEN [called EXCEPT !.attempt = mm.attempt + 1]
                ELSE Finish([called EXCEPT !.attempt = mm.attempt + 1, !.used_fallback = TRUE],
                            FallbackStructureExtraction(mm.document_text))
    /\ UNCHANGED <<storeVars, documents, last, histVars, sp, cx, textVars, cacheVars>>

(* ================= DocumentProcessor._split_into_chunks ================ *)
Terminators == {".", "!", "?"}      \* text[i] in '.!?'
Whitespace == {" "}                 \* what str.strip() removes
LookBack == 100                     \* start + self.chunk_size - 100

\* texts are sequences of characters; Python indexes them from 0
CharAt(text, i) == text[i + 1]

ShortTexts == SeqsUpTo({"a", " ", "."}, MaxTextLen)

\* 130 characters with sentence ends around the ends of the look-back window
\* of the first boundary (chunk_size 110: indices 11..110 are scanned)
LongTexts ==
    {[i \in 1..130 |-> IF (i - 1) \in T THEN "." ELSE "a"] : T \in SUBSET {10, 11, 60, 110}}

ExampleText ==
    <<"C", "a", "t", "s", " ", "a", "r", "e", " ", "m", "a", "m", "m", "a", "l", "s", ".", " ",
      "C", "a", "t", "s", " ", "p", "u", "r", "r", ".", " ",
      "D", "o", "g", "s", " ", "a", "r", "e", " ", "m", "a", "m", "m", "a", "l", "s", ".", " ",
      "D", "o", "g", "s", " ", "b", "a", "r", "k", ".">>

\* <<text, chunk_size, chunk_overlap>>: the argument and the two fields set by __init__
SplitInputs ==
    (ShortTexts \X (0..MaxChunkSize) \X (0..MaxOverlap))
        \cup (LongTexts \X {110} \X {0, 20})
        \cup {<<ExampleText, 30, 5>>}

CutPositionFarthest(hits) == CHOOSE i \in hits : \A j \in hits : i <= j

\* for i in range(end, max(...), -1): the first hit is the largest index
CutPosition(hits) == CHOOSE i \in hits : \A j \in hits : j <= i

\* end after the search for a sentence ending near the chunk boundary
SentenceEnd(text, start, chunk_size) ==
    LET end == start + chunk_size
        lo == IF start + chunk_size - LookBack > start
              THEN start + chunk_size - LookBack ELSE start
        hits == {i \in (lo + 1)..end : CharAt(text, i) \in Terminators}
    IN IF end < Len(text) /\ hits # {} THEN CutPosition(hits) + 1 ELSE end

\* text[start:end] for start, end >= 0
TextSlice(text, start, end) ==
    SubSeq(text, start + 1, IF end < Len(text) THEN end ELSE Len(text))

\* str.strip()
Strip(s) ==
    LET keep == {i \in 1..Len(s) : s[i] \notin Whitespace} IN
    IF keep = {} THEN <<>>
    ELSE SubSeq(s, CHOOSE i \in keep : \A j \in keep : i <= j,
                   CHOOSE i \in keep : \A j \in keep : j <= i)

SPInit == [pc |-> "idle", text |-> <<>>, chunk_size |-> 0, chunk_overlap |-> 0,
           start |-> 0, chunks |-> <<>>, iterations |-> 0]

\* the call up to the first test of the while condition
SplitIntoChunks(text, chunk_size, chunk_overlap) ==
    /\ sp.pc = "idle"
    /\ sp' = [pc |-> IF Len(text) = 0 THEN "done" ELSE "loop",
              text |-> text, chunk_size |-> chunk_size, chunk_overlap |-> chunk_overlap,
              start |-> 0, chunks |-> <<>>, iterations |-> 0]
    /\ UNCHANGED <<storeVars, documents, last, histVars, mm, cx, textVars, cacheVars>>

\* one iteration of the while loop
SplitStep ==
    /\ sp.pc = "loop"
    /\ sp.iterations < MaxIterations
    /\ LET end == SentenceEnd(sp.text, sp.start, sp.chunk_size)
           chunk_text == Strip(TextSlice(sp.text, sp.start, end))
           advanced == sp.start + sp.chunk_size - sp.chunk_overlap
           next_start == IF advanced > end THEN advanced ELSE end
       IN sp' = [sp EXCEPT
                   !.chunks = IF chunk_text # <<>>
                              THEN Append(@, [index |-> Len(@), text |-> chunk_text,
                                              start_pos |-> sp.start, end_pos |-> end])
                              ELSE @,
                   !.start = next_start,
                   !.iterations = @ + 1,
                   !.pc = IF next_start >= Len(sp.text) THEN "done" ELSE "loop"]
    /\ UNCHANGED <<storeVars, documents, last, histVars, mm, cx, textVars, cacheVars>>

(* ======================== get_context_for_query ======================== *)
ContextTopK == 5            \* self.search(query, top_k=5, min_score=0.05)
HeaderLen == 57             \* "Relevant information from documents (confidence: 0.00):\n\n"
NoContextLen == 52          \* "No relevant context found in the uploaded documents."
TruncationReserve == 20     \* max_context_length - total_length - 20
MinTruncatedSpace == 100    \* if remaining_space > 100
EllipsisLen == 3            \* + "..."
SeparatorLen == 2           \* "\n\n".join(context_parts)

\* len(formatted_chunk) of a search result: "[From <document_name>]: <text>"
FormattedLens == {40, 150, 400}

\* max_context_length (2000 is the default)
ContextLengths == {200, 500, 1000, 2000}

\* what self.search returns to get_context_for_query, by the lengths of the
\* formatted chunks: at most top_k entries
SearchResultLens == SeqsUpTo(FormattedLens, IF MaxResults < ContextTopK THEN MaxResults
                                            ELSE ContextTopK)

\* the loop over search_results: the lengths of context_parts
RECURSIVE ContextParts(_, _, _, _)
ContextParts(lens, max_context_length, i, total_length) ==
    IF i > Len(lens) THEN <<>>
    ELSE IF total_length + lens[i] > max_context_length
    THEN LET remaining_space == max_context_length - total_length - TruncationReserve IN
         IF remaining_space > MinTruncatedSpace
         THEN <<(IF lens[i] < remaining_space THEN lens[i] ELSE remaining_space) + EllipsisLen>>
         ELSE <<>>
    ELSE <<lens[i]>> \o ContextParts(lens, max_context_length, i + 1, total_length + lens[i])

\* len("\n\n".join(parts))
RECURSIVE JoinedLen(_, _)
JoinedLen(parts, n) ==
    IF n = 0 THEN 0
    ELSE parts[n] + (IF n > 1 THEN SeparatorLen ELSE 0) + JoinedLen(parts, n - 1)

\* len of the string get_context_for_query returns
ContextLen(lens, max_context_length) ==
    IF Len(lens) = 0 THEN NoContextLen
    ELSE LET parts == ContextParts(lens, max_context_length, 1, 0)
         IN HeaderLen + JoinedLen(parts, Len(parts))

CXInit == [called |-> FALSE, search_results |-> <<>>, max_context_length |-> 0,
           context_parts |-> <<>>, context_len |-> 0]

GetContextForQuery(lens, max_context_length) ==
    /\ cx' = [called |-> TRUE, search_results |-> lens,
              max_context_length |-> max_context_length,
              context_parts |-> ContextParts(lens, max_context_length, 1, 0),
              context_len |-> ContextLen(lens, max_context_length)]
    /\ UNCHANGED <<storeVars, documents, last, histVars, mm, sp, textVars, cacheVars>>

(* ============ response text: _clean_json_response, _repair_json_content ============ *)
\* A response text is a sequence of characters. A word of letters that the
\* regular expressions treat as one run ("main_themes", "json") and the code
\* fence of three backticks are written as one element each.
Quote == "\""
Backslash == "\\"
Space == {" ", "\n"}                                  \* \s
Punctuation == {"{", "}", "[", "]", ",", ":"}
IdentChars == {"a", "t", "main_themes", "json"}       \* [a-zA-Z_][a-zA-Z0-9_]*
Fence == "fence"

\* the first index >= i whose character is in S (Len + 1: none), and the first
\* index >= i whose character is not in S
FindIn(text, i, S) ==
    LET hits == {j \in i..Len(text) : text[j] \in S} IN
    IF hits = {} THEN Len(text) + 1 ELSE CHOOSE j \in hits : \A k \in hits : j <= k

SkipIn(text, i, S) ==
    LET stops == {j \in i..Len(text) : text[j] \notin S} IN
    IF stops = {} THEN Len(text) + 1 ELSE CHOOSE j \in stops : \A k \in stops : j <= k

\* re.sub(r',\s*([}\]])', r'\1', content)
RECURSIVE RemoveTrailingCommas(_, _)
RemoveTrailingCommas(text, i) ==
    IF i > Len(text) THEN <<>>
    ELSE LET j == SkipIn(text, i + 1, Space) IN
         IF text[i] = "," /\ j <= Len(text) /\ text[j] \in {"}", "]"}
         THEN <<text[j]>> \o RemoveTrailingCommas(text, j + 1)
         ELSE <<text[i]>> \o RemoveTrailingCommas(text, i + 1)

\* re.sub(r'([{,]\s*)([a-zA-Z_][a-zA-Z0-9_]*)\s*:', r'\1"\2":', content)
RECURSIVE QuoteKeys(_, _)
QuoteKeys(text, i) ==
    IF i > Len(text) THEN <<>>
    ELSE LET j == SkipIn(text, i + 1, Space)
             k == SkipIn(text, j, IdentChars)
             l == SkipIn(text, k, Space)
         IN IF text[i] \in {"{", ","} /\ k > j /\ l <= Len(text) /\ text[l] = ":"
            THEN SubSeq(text, i, j - 1) \o <<Quote>> \o SubSeq(text, j, k - 1)
                     \o <<Quote, ":">> \o QuoteKeys(text, l + 1)
            ELSE <<text[i]>> \o QuoteKeys(text, i + 1)

\* re.sub(r':\s*"([^"]*)"([^",}\]]*)"', r': "\1\2"', content)
RECURSIVE FixQuotes(_, _)
FixQuotes(text, i) ==
    IF i > Len(text) THEN <<>>
    ELSE LET j == SkipIn(text, i + 1, Space)
             q == FindIn(text, j + 1, {Quote})
             e == FindIn(text, q + 1, {Quote, ",", "}", "]"})
         IN IF text[i] = ":" /\ j <= Len(text) /\ text[j] = Quote
                /\ q <= Len(text) /\ e <= Len(text) /\ text[e] = Quote
            THEN <<":", " ", Quote>> \o SubSeq(text, j + 1, q - 1) \o SubSeq(text, q + 1, e - 1)
                     \o <<Quote>> \o FixQuotes(text, e + 1)
            ELSE <<text[i]>> \o FixQuotes(text, i + 1)

\* what _repair_json_content returns
RepairedContent(content) ==
    FixQuotes(QuoteKeys(RemoveTrailingCommas(content, 1), 1), 1)

(* ------------------------------- json.loads ---------------------------- *)
\* the closing quote of the string whose first character is at j (0: the string
\* is not closed, or holds a control character or a bad escape)
RECURSIVE StringEnd(_, _)
StringEnd(text, j) ==
    IF j > Len(text) \/ text[j] = "\n" THEN 0
    ELSE IF text[j] = Quote THEN j
    ELSE IF text[j] = Backslash
    THEN IF j + 1 <= Len(text) /\ text[j + 1] \in {Quote, Backslash}
         THEN StringEnd(text, j + 2) ELSE 0
    ELSE StringEnd(text, j + 1)

\* the characters a string body stands for
RECURSIVE Unescaped(_, _)
Unescaped(body, i) ==
    IF i > Len(body) THEN <<>>
    ELSE IF body[i] = Backslash THEN <<body[i + 1]>> \o Unescaped(body, i + 2)
    ELSE <<body[i]>> \o Unescaped(body, i + 1)

BadToken == [kind |-> "bad", chars |-> <<>>]

RECURSIVE Tokens(_, _)
Tokens(text, i) ==
    IF i > Len(text) THEN <<>>
    ELSE IF text[i] \in Space THEN Tokens(text, i + 1)
    ELSE IF text[i] \in Punctuation
    THEN <<[kind |-> text[i], chars |-> <<>>]>> \o Tokens(text, i + 1)
    ELSE IF text[i] = Quote /\ StringEnd(text, i + 1) # 0
    THEN LET e == StringEnd(text, i + 1) IN
         <<[kind |-> "string", chars |-> Unescaped(SubSeq(text, i + 1, e - 1), 1)]>>
             \o Tokens(text, e + 1)
    ELSE <<BadToken>>

NotJson == [ok |-> FALSE, members |-> <<>>]

\* the members "key": value of an object from token i on; a value is a string
\* or the empty list
RECURSIVE Members(_, _)
Members(toks, i) ==
    IF ~(i + 2 <= Len(toks) /\ toks[i].kind = "string" /\ toks[i + 1].kind = ":") THEN NotJson
    ELSE LET is_list == i + 3 <= Len(toks) /\ toks[i + 2].kind = "[" /\ toks[i + 3].kind = "]"
             next == IF is_list THEN i + 4 ELSE i + 3
             member == [key |-> toks[i].chars,
                        value |-> IF is_list THEN [type |-> "list", chars |-> <<>>]
                                  ELSE [type |-> "string", chars |-> toks[i + 2].chars]]
         IN IF ~(is_list \/ toks[i + 2].kind = "string") \/ next > Len(toks) THEN NotJson
            ELSE IF toks[next].kind = "}" /\ next = Len(toks)
            THEN [ok |-> TRUE, members |-> <<member>>]
            ELSE IF toks[next].kind = ","
            THEN LET rest == Members(toks, next + 1) IN
                 IF rest.ok THEN [ok |-> TRUE, members |-> <<member>> \o rest.members]
                 ELSE NotJson
            ELSE NotJson

\* json.loads on a text: the object it denotes, or JSONDecodeError
JsonLoads(text) ==
    LET toks == Tokens(text, 1) IN
    IF Len(toks) < 2 \/ toks[1].kind # "{" THEN NotJson
    ELSE IF Len(toks) = 2 THEN [ok |-> toks[2].kind = "}", members |-> <<>>]
    ELSE Members(toks, 2)

(* ------------------------------ input texts ---------------------------- *)
\* string bodies: any characters, a quote only after a backslash and a
\* backslash only before a quote
BodyChars == {"a", ",", "}", ":", " ", Backslash, Quote}

ValidBody(body) ==
    \A i \in 1..Len(body) :
        /\ body[i] = Quote => (i > 1 /\ body[i - 1] = Backslash)
        /\ body[i] = Backslash => (i < Len(body) /\ body[i + 1] = Quote)

Bodies == {body \in SeqsUpTo(BodyChars, MaxBodyLen) : ValidBody(body)}

\* {"t":"<body>"}
TitleObject(body) == <<"{", Quote, "t", Quote, ":", Quote>> \o body \o <<Quote, "}">>

ValidJsonTexts == {TitleObject(body) : body \in Bodies}

\* the JSON objects of a response: "main_themes" with an empty list, with or
\* without a "t" member, the key quoted or not, a comma before "}" or not
KeyText(quoted) == IF quoted THEN <<Quote, "main_themes", Quote>> ELSE <<"main_themes">>

ObjectText(quoted, title, trailing_comma) ==
    <<"{">> \o KeyText(quoted) \o <<":", "[", "]">>
        \o (IF title THEN <<",", Quote, "t", Quote, ":", Quote, "a", Quote>> ELSE <<>>)
        \o (IF trailing_comma THEN <<",">> ELSE <<>>) \o <<"}">>

\* a response holding the object alone, inside a json code fence, or inside prose
Wrappers == {"bare", "fenced", "prose"}

Wrapped(wrapper, object) ==
    IF wrapper = "fenced" THEN <<Fence, "json", "\n">> \o object \o <<"\n", Fence>>
    ELSE IF wrapper = "prose" THEN <<"a", " ">> \o object \o <<" ", "a">>
    ELSE object

ResponseInputs == [wrapper : Wrappers, quoted : BOOLEAN, title : BOOLEAN,
                   trailing_comma : BOOLEAN]

(* ------------------------- _clean_json_response ------------------------ *)
\* re.sub(r'```json\s*', '', content, flags=re.IGNORECASE), then re.sub(r'```\s*', '', content)
RECURSIVE WithoutFences(_, _, _)
WithoutFences(text, i, with_json) ==
    IF i > Len(text) THEN <<>>
    ELSE IF text[i] = Fence /\ (~with_json \/ (i + 1 <= Len(text) /\ text[i + 1] = "json"))
    THEN WithoutFences(text, SkipIn(text, IF with_json THEN i + 2 ELSE i + 1, Space), with_json)
    ELSE <<text[i]>> \o WithoutFences(text, i + 1, with_json)

\* the index of the brace that closes the one at start_idx (0: none)
RECURSIVE ClosingBrace(_, _, _)
ClosingBrace(text, i, brace_count) ==
    IF i > Len(text) THEN 0
    ELSE IF text[i] = "{" THEN ClosingBrace(text, i + 1, brace_count + 1)
    ELSE IF text[i] = "}"
    THEN IF brace_count = 1 THEN i ELSE ClosingBrace(text, i + 1, brace_count - 1)
    ELSE ClosingBrace(text, i + 1, brace_count)

\* what _clean_json_response returns, or the ValueError it raises
CleanedContent(content) ==
    LET text == WithoutFences(WithoutFences(content, 1, TRUE), 1, FALSE)
        start_idx == FindIn(text, 1, {"{"})
        end_idx == IF start_idx > Len(text) THEN 0 ELSE ClosingBrace(text, start_idx, 0)
    IN IF end_idx = 0 THEN [raised |-> TRUE, text |-> <<>>]
       ELSE [raised |-> FALSE, text |-> SubSeq(text, start_idx, end_idx)]

(* --------------- _process_structured_response on a text ---------------- *)
\* _validate_structured_data on a parsed object whose themes list is empty
ValidParsed(data) ==
    \E i \in 1..Len(data.members) :
        data.members[i].key = <<"main_themes">> /\ data.members[i].value.type = "list"

TextError(message) == [is_error |-> TRUE, error |-> message, data |-> NotJson]

\* what _process_structured_response returns for a response text, and the text
\* it handed to _repair_json_content (<<>>: none)
ProcessedText(content) ==
    LET cleaned == CleanedContent(content)
        data == JsonLoads(cleaned.text)
        repaired == JsonLoads(RepairedContent(content))
    IN IF cleaned.raised
       THEN [result |-> TextError("Structure processing error"), repair_input |-> <<>>]
       ELSE IF data.ok
       THEN [result |-> IF ValidParsed(data)
                        THEN [is_error |-> FALSE, error |-> "", data |-> data]
                        ELSE TextError("Failed to validate structured data"),
             repair_input |-> <<>>]
       ELSE [result |-> IF repaired.ok /\ ValidParsed(repaired)
                        THEN [is_error |-> FALSE, error |-> "", data |-> repaired]
                        ELSE TextError("JSON processing failed"),
             repair_input |-> content]

NoInput == [wrapper |-> "bare", quoted |-> TRUE, title |-> FALSE, trailing_comma |-> FALSE]

JSInit == [op |-> "none", content |-> <<>>, returned |-> <<>>, input |-> NoInput,
           result |-> TextError(""), repair_input |-> <<>>]

\* _repair_json_content(content)
RepairJsonContent(content) ==
    /\ js' = [JSInit EXCEPT !.op = "repair", !.content = content,
                            !.returned = RepairedContent(content)]
    /\ UNCHANGED <<storeVars, documents, last, histVars, mm, sp, cx, smp, mz, cacheVars>>

\* _process_structured_response(content) for the response text built from input
ProcessResponseText(input) ==
    /\ LET content == Wrapped(input.wrapper,
                              ObjectText(input.quoted, input.title, input.trailing_comma))
           p == ProcessedText(content)
       IN js' = [JSInit EXCEPT !.op = "process", !.content = content, !.input = input,
                               !.result = p.result, !.repair_input = p.repair_input]
    /\ UNCHANGED <<storeVars, documents, last, histVars, mm, sp, cx, smp, mz, cacheVars>>

(* ==================== _intelligent_document_sampling =================== *)
MaxContentLength == 20000   \* max_content_length = 20000
SampleParts == 5            \* sample_size = max_length // 5
MiddleSamples == 3          \* for i in range(1, 4)
MarkerLen == 28             \* len("\n\n[DOCUMENT SECTION BREAK]\n\n")

\* len(text[start:end]) for 0 <= start and a text of doc_length characters
SliceLen(doc_length, start, end) ==
    LET stop == IF end < doc_length THEN end ELSE doc_length
    IN IF start < stop THEN stop - start ELSE 0

\* len(text[-sample_size:]): text[-0:] is the whole text
TailLen(doc_length, sample_size) ==
    IF sample_size = 0 \/ sample_size > doc_length THEN doc_length ELSE sample_size

\* the lengths of the entries of samples
SampleLens(doc_length, max_length) ==
    LET sample_size == max_length \div SampleParts IN
    <<SliceLen(doc_length, 0, sample_size)>>
    \o [i \in 1..MiddleSamples |->
          SliceLen(doc_length, (doc_length * i) \div (MiddleSamples + 1),
                   (doc_length * i) \div (MiddleSamples + 1) + sample_size)]
    \o <<TailLen(doc_length, sample_size)>>

RECURSIVE SumLens(_, _)
SumLens(lens, n) == IF n = 0 THEN 0 ELSE lens[n] + SumLens(lens, n - 1)

\* len(marker.join(samples))
JoinedSamplesLen(lens) ==
    SumLens(lens, Len(lens)) + (IF Len(lens) = 0 THEN 0 ELSE (Len(lens) - 1) * MarkerLen)

\* len(document_text) of the documents _extract_structured_data samples
LargeDocumentLengths == (MaxContentLength + 1)..(MaxContentLength + MaxExtraLength)

SMPInit == [called |-> FALSE, doc_length |-> 0, max_length |-> 0,
            sample_lens |-> <<>>, returned_len |-> 0]

\* _intelligent_document_sampling(document_text, max_length) for a text of
\* doc_length characters
IntelligentDocumentSampling(doc_length, max_length) ==
    /\ smp' = [called |-> TRUE, doc_length |-> doc_length, max_length |-> max_length,
               sample_lens |-> SampleLens(doc_length, max_length),
               returned_len |-> JoinedSamplesLen(SampleLens(doc_length, max_length))]
    /\ UNCHANGED <<storeVars, documents, last, histVars, mm, sp, cx, js, mz, cacheVars>>

(* ============================ Mermaid diagram =========================== *)
\* A node id is a sequence of characters. The root's id is the one token "root";
\* the ids of the other nodes are the "id" fields of the model's answer.
IdChars == {"a", "-", "_", " "}

NodeIds == UNION {[1..n -> IdChars] : n \in 1..MaxIdLen}

RootNodeId == <<"root">>

\* node_id.replace("-", "_").replace(" ", "_")
CleanId(node_id) ==
    [i \in 1..Len(node_id) |-> IF node_id[i] \in {"-", " "} THEN "_" ELSE node_id[i]]

\* self.nodes in insertion order (a dict: the ids are distinct) and self.edges:
\* the root, a theme under it and possibly a subtopic under the theme
GraphNodes(theme_id, subtopic_id) ==
    <<[id |-> RootNodeId, node_type |-> "root"], [id |-> theme_id, node_type |-> "theme"]>>
    \o (IF subtopic_id = <<>> THEN <<>>
        ELSE <<[id |-> subtopic_id, node_type |-> "subtopic"]>>)

GraphEdges(theme_id, subtopic_id) ==
    <<[from |-> RootNodeId, to |-> theme_id]>>
    \o (IF subtopic_id = <<>> THEN <<>> ELSE <<[from |-> theme_id, to |-> subtopic_id]>>)

Graphs ==
    {<<t, s>> \in NodeIds \X (NodeIds \cup {<<>>}) : s # t}

\* the bracket of a node's line: ["name"] for root and subtopic, ("name") else
NodeShape(node_type) ==
    IF node_type \in {"root", "subtopic"} THEN "box" ELSE "round"

NodeLines(nodes) ==
    [i \in 1..Len(nodes) |->
        [clean_id |-> CleanId(nodes[i].id), shape |-> NodeShape(nodes[i].node_type),
         class |-> nodes[i].node_type]]

EdgeLines(edges) ==
    [i \in 1..Len(edges) |->
        [from_clean |-> CleanId(edges[i].from), to_clean |-> CleanId(edges[i].to)]]

MZInit == [pc |-> "idle", nodes |-> <<>>, edges |-> <<>>,
           node_lines |-> <<>>, edge_lines |-> <<>>]

\* _create_mermaid_diagram() on the graph of theme_id and subtopic_id
CreateMermaidDiagram(theme_id, subtopic_id) ==
    /\ LET nodes == GraphNodes(theme_id, subtopic_id)
           edges == GraphEdges(theme_id, subtopic_id)
       IN mz' = [pc |-> "done", nodes |-> nodes, edges |-> edges,
                 node_lines |-> NodeLines(nodes), edge_lines |-> EdgeLines(edges)]
    /\ UNCHANGED <<storeVars, documents, last, histVars, mm, sp, cx, js, smp, cacheVars>>

(* ===================== analysis cache (src/app.py) ===================== *)
DefaultPersonality == "general"

\* two of the five keys of self.personalities
Personalities == {"general", "researcher"}

\* two of the four analyses, which all use the cache in the same way
AnalysisTypes == {"summary", "key_points"}

\* what process_document returns for the file a.txt, with its "word_count":
\* a text of one chunk (the analyzer's terms do not fix the number of words:
\* "the cats" and "cats purr" have two, "the cats purr" three), or a failure
SessionDocuments ==
    [success : {TRUE}, has_meta : {TRUE}, filename : {"a.txt"},
     chunks : {<<c>> : c \in WellFormedChunks}, word_count : {2}]
    \cup {[success |-> TRUE, has_meta |-> TRUE, filename |-> "a.txt",
           chunks |-> <<[kind |-> "ok", text |-> {"cats", "purr"}]>>, word_count |-> 3],
          [success |-> FALSE, has_meta |-> TRUE, filename |-> "a.txt",
           chunks |-> <<>>, word_count |-> 0]}

Successful(docs) == SelectSeq(docs, LAMBDA d : d.success)

\* get_documents_hash(): the digest of the string of "<filename>_<word_count>_"
\* of the successful documents, modelled by the sequence of these pairs
GetDocumentsHash(docs) ==
    [i \in 1..Len(Successful(docs)) |->
        <<Successful(docs)[i].filename, Successful(docs)[i].word_count>>]

\* get_cache_key: the digest of "<documents_hash>_<analysis_type>_<personality>"
GetCacheKey(documents_hash, analysis_type, personality) ==
    <<documents_hash, analysis_type, personality>>

\* the texts of the successful documents, which the analyses are computed from
CombinedText(docs) ==
    [i \in 1..Len(Successful(docs)) |-> Successful(docs)[i].chunks]

CurrentKey(analysis_type) ==
    GetCacheKey(GetDocumentsHash(documents), analysis_type, current_personality)

NoAnalysis == [content |-> <<>>, personality |-> "", analysis_type |-> ""]

\* get_cached_analysis(analysis_type): the entry, or None
GetCachedAnalysis(analysis_type) ==
    IF CurrentKey(analysis_type) \in DOMAIN cached_analyses
    THEN cached_analyses[CurrentKey(analysis_type)]
    ELSE NoAnalysis

\* save_analysis_cache(analysis_type, content); the content is the gateway's
\* answer, modelled by the text it was asked about
SavedCache(analysis_type, content) ==
    [k \in DOMAIN cached_analyses \cup {CurrentKey(analysis_type)} |->
        IF k = CurrentKey(analysis_type)
        THEN [content |-> content, personality |-> current_personality,
              analysis_type |-> analysis_type]
        ELSE cached_analyses[k]]

\* clear_analysis_cache(analysis_type)
ClearedCache(analysis_type) ==
    [k \in DOMAIN cached_analyses \ {CurrentKey(analysis_type)} |-> cached_analyses[k]]

\* generate_fresh_summary, generate_fresh_key_points: the cache after them
FreshAnalysis(analysis_type, success) ==
    IF Successful(documents) = <<>> \/ ~success
    THEN cached_analyses
    ELSE SavedCache(analysis_type, CombinedText(documents))

\* generate_document_summary, extract_key_points; success is response["success"]
GenerateAnalysis(analysis_type, success) ==
    /\ \/ CurrentKey(analysis_type) \in DOMAIN cached_analyses
       \/ Cardinality(DOMAIN cached_analyses) < MaxCacheEntries
    /\ IF documents = <<>>
       THEN UNCHANGED <<cached_analyses, force_regenerate>>
       ELSE IF analysis_type \in force_regenerate
       THEN /\ force_regenerate' = force_regenerate \ {analysis_type}
            /\ cached_analyses' = FreshAnalysis(analysis_type, success)
       ELSE IF GetCachedAnalysis(analysis_type) # NoAnalysis
       THEN UNCHANGED <<cached_analyses, force_regenerate>>
       ELSE /\ cached_analyses' = FreshAnalysis(analysis_type, success)
            /\ UNCHANGED force_regenerate
    /\ UNCHANGED <<storeVars, documents, last, histVars, mm, sp, cx, textVars,
                   current_personality>>

\* regenerate_summary, regenerate_key_points
Regenerate(analysis_type) ==
    /\ cached_analyses' = ClearedCache(analysis_type)
    /\ force_regenerate' = force_regenerate \cup {analysis_type}
    /\ UNCHANGED <<storeVars, documents, last, histVars, mm, sp, cx, textVars,
                   current_personality>>

\* the personality selectbox
SetPersonality(selected_personality) ==
    /\ IF selected_personality # current_personality
       THEN /\ current_personality' = selected_personality
            /\ cached_analyses' = <<>>
       ELSE UNCHANGED <<current_personality, cached_analyses>>
    /\ UNCHANGED <<storeVars, documents, last, histVars, mm, sp, cx, textVars,
                   force_regenerate>>

\* the Refresh button of the studio column
RefreshAnalyses ==
    /\ cached_analyses' = <<>>
    /\ UNCHANGED <<storeVars, documents, last, histVars, mm, sp, cx, textVars,
                   current_personality, force_regenerate>>

Init ==
    /\ chunks = <<>>
    /\ document_vectors = NoMatrix
    /\ is_fitted = FALSE
    /\ vectorizer = NewVectorizer
    /\ documents = <<>>
    /\ last = Call("init", "", TRUE, "", FALSE, FALSE)
    /\ live = [n \in DocNames |-> 0]
    /\ removed = {}
    /\ max_issued = -1
    /\ mm = MMInit
    /\ sp = SPInit
    /\ cx = CXInit
    /\ js = JSInit
    /\ smp = SMPInit
    /\ mz = MZInit
    /\ cached_analyses = <<>>
    /\ current_personality = DefaultPersonality
    /\ force_regenerate = {}

Next ==
    \/ \E doc_info \in DocInfos : AddDocument(doc_info)
    \/ \E document_name \in DocNames : RemoveDocument(document_name)
    \/ Clear

Spec == Init /\ [][Next]_vars

\* the session: the two handlers of app.py on st.session_state.vector_store,
\* and VectorStore.remove_document on the same store (no handler calls it;
\* it is the removal the store itself offers)
NextApp ==
    \/ \E doc_result \in ProcessedDocuments : UploadDocument(doc_result)
    \/ \E filename \in DocNames : AppRemoveDocument(filename)
    \/ \E document_name \in DocNames : RemoveDocument(document_name)

SpecApp == Init /\ [][NextApp]_vars

\* the session when the store is reached through the two handlers only
NextSession ==
    \/ \E doc_result \in ProcessedDocuments : UploadDocument(doc_result)
    \/ \E filename \in DocNames : AppRemoveDocument(filename)

SpecSession == Init /\ [][NextSession]_vars

NextGen ==
    \/ \E document_text \in DocumentTexts : GenerateMindMap(document_text)
    \/ \E response \in Responses : Attempt(response)

SpecGen == Init /\ [][NextGen]_vars

NextCtx ==
    \E lens \in SearchResultLens, max_context_length \in ContextLengths :
        GetContextForQuery(lens, max_context_length)

SpecCtx == Init /\ [][NextCtx]_vars

NextSplit ==
    \/ \E input \in SplitInputs : SplitIntoChunks(input[1], input[2], input[3])
    \/ SplitStep

SpecSplit == Init /\ [][NextSplit]_vars

NextJson ==
    \/ \E content \in ValidJsonTexts : RepairJsonContent(content)
    \/ \E input \in ResponseInputs : ProcessResponseText(input)

SpecJson == Init /\ [][NextJson]_vars

NextCache ==
    \/ \E doc_result \in SessionDocuments : UploadDocument(doc_result)
    \/ \E filename \in DocNames : AppRemoveDocument(filename)
    \/ \E analysis_type \in AnalysisTypes, success \in BOOLEAN :
          GenerateAnalysis(analysis_type, success)
    \/ \E analysis_type \in AnalysisTypes : Regenerate(analysis_type)
    \/ \E selected_personality \in Personalities : SetPersonality(selected_personality)
    \/ RefreshAnalyses

SpecCache == Init /\ [][NextCache]_vars

NextSample ==
    \E doc_length \in LargeDocumentLengths :
        IntelligentDocumentSampling(doc_length, MaxContentLength)

SpecSample == Init /\ [][NextSample]_vars

NextMermaid ==
    \E graph \in Graphs : CreateMermaidDiagram(graph[1], graph[2])

SpecMermaid == Init /\ [][NextMermaid]_vars

(* ======================= claims on the vector store ==================== *)
\* C1: after remove_document(X) has returned True (and until X is added again)
\* no search, whatever its arguments, returns a chunk whose document_name is X,
\* and get_statistics()["total_chunks"] is the sum of the chunk counts of the
\* documents added and not removed since.
RemovalCorrect ==
    /\ \A x \in removed : \A q \in Queries, k \in TopKs, m \in MinScores :
            LET res == SearchResult(Store, q, k, m)
            IN \A j \in 1..Len(res) : res[j].chunk.document_name # x
    /\ GetStatistics(Store).total_chunks = SumOver(live, DocNames)

\* a document was removed, another is still indexed and a search finds it
RemovalWitness ==
    /\ last.op = "remove_document" /\ last.ok
    /\ last.name \in removed
    /\ \E n \in DocNames : live[n] >= 2
    /\ \E q \in Queries : Len(SearchResult(Store, q, MaxTopK, 0)) >= 2

\* C2: no two stored chunks carry the same global_index, and every identifier
\* a successful add_document assigns is greater than every identifier assigned
\* before it.
IdsUniqueMonotonic ==
    [][/\ \A i, j \in 1..Len(chunks') :
            i # j => chunks'[i].global_index # chunks'[j].global_index
       /\ (last'.op = "add_document" /\ last'.ok) =>
            \A i \in (Len(chunks) + 1)..Len(chunks') : chunks'[i].global_index > max_issued
      ]_vars

\* C6: an add_document that returns False leaves chunks, document_vectors and
\* is_fitted exactly as they were before the call.
AddAtomicOnFailure ==
    [][(last'.op = "add_document" /\ ~last'.ok) =>
            /\ chunks' = chunks
            /\ document_vectors' = document_vectors
            /\ is_fitted' = is_fitted
      ]_vars

\* add_document failed in the vectorizer on an index that already holds chunks
AddFailureWitness ==
    /\ last.op = "add_document" /\ ~last.ok
    /\ last.err = "AttributeError"
    /\ is_fitted /\ Len(chunks) >= 2

\* C7: document_vectors has one row per chunk, row i being the vector of
\* chunks[i], and there is no matrix at all when there are no chunks.
RowsMatchChunks ==
    IF Len(chunks) = 0 THEN document_vectors.is_none
    ELSE /\ ~document_vectors.is_none
         /\ Len(document_vectors.rows) = Len(chunks)
         /\ \A i \in 1..Len(chunks) :
                document_vectors.rows[i] = chunks[i].text \cap vectorizer.vocabulary_

\* a removal from the middle left chunks of two documents with different rows
RowsWitness ==
    /\ last.op = "remove_document" /\ last.ok
    /\ Len(chunks) >= 2
    /\ document_vectors.rows[1] # document_vectors.rows[2]

\* C8: add_document on a non-empty index leaves every stored chunk at its row,
\* with its global_index and content, and every existing row of the matrix as
\* it was.
AppendOnly ==
    [][(last'.op = "add_document" /\ Len(chunks) > 0) =>
            /\ Len(chunks') >= Len(chunks)
            /\ \A i \in 1..Len(chunks) :
                /\ chunks'[i] = chunks[i]
                /\ document_vectors'.rows[i] = document_vectors.rows[i]
      ]_vars

\* document B was appended behind document A's chunks
AppendWitness ==
    /\ last.op = "add_document" /\ last.ok /\ ~last.fit
    /\ Len(chunks) >= 3
    /\ chunks[1].document_name # chunks[Len(chunks)].document_name

(* ---- search ranking ---- *)
\* the scores the ranking is about: similarity of the query to each row
Scores(query) ==
    [i \in 1..Len(chunks) |->
        CosineSimilarity(query.terms \cap vectorizer.vocabulary_, document_vectors.rows[i])]

\* row i ranks before row j under the scores sc: higher score, or equal score
\* and earlier chunk
RanksBefore(sc, i, j) ==
    \/ ScoreGreater(sc[i], sc[j])
    \/ /\ ~ScoreGreater(sc[j], sc[i])
       /\ i < j

\* the rows whose score is at least min_score
QualifyingRows(sc, min_score) == {i \in DOMAIN sc : ScoreAtLeast(sc[i], min_score)}

\* res is the first n entries of the ranking of the rows qual under the scores sc
IsRankingPrefix(res, sc, qual, n) ==
    /\ Len(res) = n
    /\ \A j \in 1..Len(res) :
        /\ res[j].row \in qual
        /\ res[j].chunk = chunks[res[j].row]
        /\ res[j].similarity_score = sc[res[j].row]
        /\ res[j].rank = j
    /\ \A j, k \in 1..Len(res) : j < k => RanksBefore(sc, res[j].row, res[k].row)
    /\ \A i \in qual :
        \/ \E j \in 1..Len(res) : res[j].row = i
        \/ \A j \in 1..Len(res) : RanksBefore(sc, res[j].row, i)

Min(a, b) == IF a < b THEN a ELSE b

\* C9 as stated: for every fitted index, query, top_k and min_score the result
\* is the ranking of the rows with score >= min_score (descending, ties in
\* chunk order), cut to at most top_k entries, ranks 1..n.
SearchRankedForAll ==
    is_fitted =>
        \A q \in Queries, m \in MinScores, k \in TopKs :
            LET sc == Scores(q)
                qual == QualifyingRows(sc, m)
            IN IsRankingPrefix(SearchResult(Store, q, k, m), sc, qual,
                               Min(k, Cardinality(qual)))

\* C9 amended: the above for non-blank queries and top_k >= 0; a blank query
\* returns nothing whatever min_score is, and a negative top_k cuts |top_k|
\* entries off the end of the ranking.
SearchRanked ==
    is_fitted =>
        \A q \in Queries :
            IF q.blank
            THEN \A m \in MinScores, k \in TopKs : SearchResult(Store, q, k, m) = <<>>
            ELSE LET sc == Scores(q) IN
                 \A m \in MinScores :
                    LET qual == QualifyingRows(sc, m)
                        n == Cardinality(qual)
                    IN \A k \in TopKs :
                        IsRankingPrefix(SearchResult(Store, q, k, m), sc, qual,
                                        IF k >= 0 THEN Min(k, n)
                                        ELSE IF n + k > 0 THEN n + k ELSE 0)

\* a search whose ranking has a tie, a strictly lower score and a row cut off by top_k
SearchWitness ==
    /\ is_fitted
    /\ \E q \in Queries :
        LET res == SearchResult(Store, q, MaxTopK, 0)
            sc == Scores(q)
        IN /\ ~q.blank
           /\ Cardinality(QualifyingRows(sc, 0)) > MaxTopK
           /\ Len(res) = MaxTopK
           /\ res[1].similarity_score = res[2].similarity_score
           /\ res[1].row < res[2].row
           /\ \E i \in 1..Len(chunks) : ScoreGreater(res[2].similarity_score, sc[i])
           /\ Cardinality(QualifyingRows(sc, 8)) < Cardinality(QualifyingRows(sc, 0))

(* ========================= claims on the vocabulary ==================== *)
IndexedNames == {chunks[i].document_name : i \in 1..Len(chunks)}

\* C10 as stated: the vocabulary is fit only in a call that reaches
\* add_document while the index holds no chunks, and an add_document that
\* succeeds on such an index does fit it; every add on a non-empty index and
\* every removal of one document among several leaves the vocabulary unchanged.
VocabularyFitOnlyOnEmpty ==
    [][/\ last'.fit => last'.add_on_empty
       /\ (last'.op \in {"add_document", "upload_document"} /\ Len(chunks) = 0 /\ last'.ok)
            => last'.fit
       /\ (last'.op \in {"add_document", "upload_document"} /\ Len(chunks) > 0)
            => vectorizer' = vectorizer
       /\ (/\ last'.op \in {"remove_document", "app_remove_document"}
           /\ last'.ok
           /\ last'.name \in IndexedNames
           /\ Cardinality(IndexedNames) >= 2)
            => vectorizer' = vectorizer
      ]_vars

\* the first of docs that add_document accepts on an empty index, 0 if none
FirstAddable(docs) ==
    LET ok == {i \in 1..Len(docs) :
                /\ docs[i].success
                /\ Len(docs[i].chunks) > 0
                /\ UNION Range(ChunkTexts(docs[i])) # {}}
    IN IF ok = {} THEN 0 ELSE CHOOSE i \in ok : \A j \in ok : i <= j

\* C10 amended: a fit happens exactly when an add_document call succeeds on an
\* index that holds no chunks; add_document on a non-empty index and
\* VectorStore.remove_document of one document among several leave the
\* vocabulary unchanged, a removal that empties the store resets it; the
\* session's remove_document handler clears the store and adds the remaining
\* documents again, so it leaves the vocabulary fit on the first remaining
\* document that can be added (none if there is no such document).
VocabularyFit ==
    [][/\ last'.fit <=> (last'.add_on_empty /\ Len(chunks') > 0)
       /\ (last'.op \in {"add_document", "upload_document"} /\ Len(chunks) > 0)
            => vectorizer' = vectorizer
       /\ (last'.op = "remove_document" /\ Len(chunks') > 0) => vectorizer' = vectorizer
       /\ (last'.op = "remove_document" /\ last'.ok /\ Len(chunks') = 0)
            => vectorizer' = NewVectorizer
       /\ (last'.op = "app_remove_document" /\ last'.ok) =>
            LET i == FirstAddable(documents') IN
            vectorizer' = IF i = 0 THEN NewVectorizer
                          ELSE [has_vocabulary |-> TRUE,
                                vocabulary_ |-> UNION Range(ChunkTexts(documents'[i]))]
      ]_vars

\* the session handler removed one of two indexed documents and refit the
\* vocabulary on the remaining one, whose terms the vocabulary did not all hold
VocabularyWitness ==
    /\ last.op = "app_remove_document" /\ last.ok /\ last.fit
    /\ Len(documents) = 1
    /\ Len(chunks) >= 1
    /\ vectorizer.vocabulary_ = {"cats", "purr"}
    /\ max_issued >= Len(chunks)


(* ===================== claims on the mind-map generator ================ *)
ThemeNodes == {i \in 1..Len(mm.nodes) : mm.nodes[i].node_type = "theme"}

\* C3: when every gateway call succeeds at transport level and returns content
\* that cannot be parsed as JSON, generate_mind_map on non-blank text returns a
\* non-error outline with at least one theme.
FallbackGuarantee ==
    (/\ mm.pc = "done"
     /\ ~IsBlank(mm.document_text)
     /\ \A i \in 1..Len(mm.responses) :
            mm.responses[i].outcome = "success" /\ mm.responses[i].kind \in GarbageKinds)
    => (mm.result.kind = "outline" /\ ThemeNodes # {})

\* C4: a response that is rejected (unparseable after the repair pass, or
\* failing validation) is followed by another gateway call until 3 calls have
\* been made, and the heuristic fallback runs only after the third.
RetryOnParseFailure ==
    /\ (/\ mm.pc = "done"
        /\ Len(mm.responses) >= 1
        /\ mm.responses[Len(mm.responses)].rejected)
       => Len(mm.calls) = MaxAttempts
    /\ mm.used_fallback => Len(mm.calls) = MaxAttempts

RECURSIVE SumSeq(_, _)
SumSeq(f, n) == IF n = 0 THEN 0 ELSE f[n] + SumSeq(f, n - 1)

\* themes + subtopics + details of a structured-data value
EntryCount(data) ==
    LET themes == data.main_themes
        perSub(t) == [j \in 1..Len(t.subtopics) |-> 1 + Len(t.subtopics[j].details)]
        perTheme == [i \in 1..Len(themes) |->
                        1 + SumSeq(perSub(themes[i]), Len(themes[i].subtopics))]
    IN SumSeq(perTheme, Len(themes))

\* C5: in every outline returned, each theme, subtopic and detail of the
\* structured data has a node of its own, with an id no other node and not the
\* root carries: the node count is 1 + themes + subtopics + details.
IdsUniqueAcrossTree ==
    (mm.pc = "done" /\ mm.result.kind = "outline") =>
        /\ \A i, j \in 1..Len(mm.nodes) : i # j => mm.nodes[i].id # mm.nodes[j].id
        /\ Len(mm.nodes) = 1 + EntryCount(mm.structured)

\* every gateway call made so far reported failure or raised
AllTransportFailures ==
    /\ Len(mm.responses) >= 1
    /\ \A i \in 1..Len(mm.responses) : mm.responses[i].outcome \in {"raise", "failure"}

\* C15: when every gateway call reports failure or raises, generate_mind_map on
\* non-blank text makes exactly 3 attempts, runs the heuristic fallback over the
\* document text and returns a non-error outline with at least one theme.
TransportFailuresAbsorbed ==
    /\ (mm.pc = "done" /\ AllTransportFailures)
          => /\ Len(mm.calls) = MaxAttempts
             /\ mm.used_fallback
             /\ mm.result.kind = "outline"
             /\ ThemeNodes # {}
    /\ (mm.pc = "attempt" /\ Len(mm.responses) >= 1)
          => (AllTransportFailures /\ Len(mm.calls) < MaxAttempts)

\* three failed calls, one raising and one reporting failure among them, on a
\* text none of whose lines is heading-sized: the outline has the default theme
TransportFailuresWitness ==
    /\ mm.pc = "done"
    /\ AllTransportFailures
    /\ \E i, j \in 1..Len(mm.responses) :
          mm.responses[i].outcome = "raise" /\ mm.responses[j].outcome = "failure"
    /\ \A n \in 1..Len(mm.document_text) : mm.document_text[n].len >= 100
    /\ mm.result.kind = "outline"
    /\ Len(mm.nodes) = 2

\* C16: generate_mind_map returns an outline or an error result for every
\* document text and gateway behaviour, and an error result only for blank
\* document text, for which no gateway call is made.
ErrorOnlyWhenBlank ==
    /\ mm.pc = "done" => mm.result.kind \in {"outline", "error"}
    /\ (mm.pc = "done" /\ mm.result.kind = "error")
          => (IsBlank(mm.document_text) /\ Len(mm.calls) = 0)

\* C17: when the model returns parseable JSON in which a theme, subtopic or detail
\* lacks its id, name or summary, generate_mind_map still returns a non-error
\* outline in which every entry of the response has a node.
MissingFieldsHealed ==
    (/\ mm.pc = "done"
     /\ Len(mm.responses) >= 1
     /\ mm.responses[Len(mm.responses)].missing_field)
    => /\ mm.result.kind = "outline"
       /\ Len(mm.nodes) > 1

NodesOfType(node_type) == {i \in 1..Len(mm.nodes) : mm.nodes[i].node_type = node_type}

\* C18: in every outline returned, built from model output or by the fallback,
\* theme names have at most 40 characters, subtopic names at most 30 and detail
\* names at most 25.
NameLengthBounds ==
    (mm.pc = "done" /\ mm.result.kind = "outline") =>
        /\ \A i \in NodesOfType("theme") : mm.nodes[i].name_len <= ThemeNameMax
        /\ \A i \in NodesOfType("subtopic") : mm.nodes[i].name_len <= SubtopicNameMax
        /\ \A i \in NodesOfType("detail") : mm.nodes[i].name_len <= DetailNameMax

\* an outline from model output whose names were all longer than the limits
NameLengthWitness ==
    /\ mm.pc = "done"
    /\ mm.result.kind = "outline"
    /\ ~mm.used_fallback
    /\ \E i \in NodesOfType("theme") : mm.nodes[i].name_len = ThemeNameMax
    /\ \E i \in NodesOfType("subtopic") : mm.nodes[i].name_len = SubtopicNameMax
    /\ \E i \in NodesOfType("detail") : mm.nodes[i].name_len = DetailNameMax
    /\ mm.structured.main_themes[1].name_len > ThemeNameMax
    /\ mm.structured.main_themes[1].subtopics[1].name_len > SubtopicNameMax

\* C19: in every outline returned, every node's summary is clamped to a fixed
\* maximum length whatever the model returned: no node carries a summary as long
\* as the longest summary of a response.
SummaryClamped ==
    (mm.pc = "done" /\ mm.result.kind = "outline") =>
        \A i \in 1..Len(mm.nodes) : mm.nodes[i].summary_len < LongSummaryLen

ChildrenOf(id) == {i \in 1..Len(mm.nodes) : mm.nodes[i].parent_id = id /\ mm.nodes[i].id # id}

\* C20: in every outline returned, no theme has more than 6 subtopic children and
\* no subtopic more than 4 detail children.
PerParentCaps ==
    (mm.pc = "done" /\ mm.result.kind = "outline") =>
        /\ \A i \in NodesOfType("theme") : Cardinality(ChildrenOf(mm.nodes[i].id)) <= 6
        /\ \A i \in NodesOfType("subtopic") : Cardinality(ChildrenOf(mm.nodes[i].id)) <= 4

(* ===================== claims on get_context_for_query ================= *)
\* C11: whenever at least one chunk matches, the text get_context_for_query
\* returns is at most max_context_length characters long.
ContextWithinLimit ==
    (cx.called /\ Len(cx.search_results) >= 1) => cx.context_len <= cx.max_context_length

(* ====================== claims on _split_into_chunks =================== *)
\* C12: every iteration of the loop of _split_into_chunks moves start to a
\* strictly greater position, for every text, chunk_size and chunk_overlap, so
\* the start positions increase and the function returns.
SplitMakesProgress ==
    [][(sp.pc = "loop" /\ sp'.iterations = sp.iterations + 1) => sp'.start > sp.start]_vars

\* C13: of two consecutive chunks the later one starts chunk_size - chunk_overlap
\* characters after the start of the earlier one.
ChunkStride ==
    \A i \in 1..(Len(sp.chunks) - 1) :
        sp.chunks[i + 1].start_pos = sp.chunks[i].start_pos + sp.chunk_size - sp.chunk_overlap

\* the boundary start + chunk_size of a chunk, and the terminators of the text at
\* the indices lo..hi
Boundary(c) == c.start_pos + sp.chunk_size

TerminatorsIn(lo, hi) == {i \in lo..hi : CharAt(sp.text, i) \in Terminators}

EndsAfterNearest(c, window) ==
    IF window # {}
    THEN \E i \in window : (\A j \in window : j <= i) /\ c.end_pos = i + 1
    ELSE c.end_pos = Boundary(c)

\* the example of the claim: every chunk of the example text ends with a terminator
ExampleChunksEndAtTerminator ==
    (sp.pc = "done" /\ sp.text = ExampleText /\ sp.chunk_size = 30 /\ sp.chunk_overlap = 5)
        => /\ Len(sp.chunks) >= 2
           /\ \A k \in 1..Len(sp.chunks) :
                  sp.chunks[k].text[Len(sp.chunks[k].text)] \in Terminators

\* C14 as stated: a chunk that is not the last one ends right after the
\* terminator nearest the boundary start + chunk_size among the 100 characters
\* before the boundary, and exactly at the boundary when there is none.
SentenceCutBeforeBoundary ==
    /\ \A k \in 1..Len(sp.chunks) :
           LET c == sp.chunks[k]
               lo == IF Boundary(c) - LookBack > c.start_pos + 1
                     THEN Boundary(c) - LookBack ELSE c.start_pos + 1
           IN Boundary(c) < Len(sp.text)
                  => EndsAfterNearest(c, TerminatorsIn(lo, Boundary(c) - 1))
    /\ ExampleChunksEndAtTerminator

\* C14: a chunk whose boundary start + chunk_size lies inside the text ends right
\* after the terminator nearest the boundary among the indices
\* max(boundary - 100, start) + 1 .. boundary, the boundary index included, and
\* exactly at the boundary when there is none; the example text with chunk_size
\* 30 and chunk_overlap 5 yields chunks that all end with a terminator.
SentenceCut ==
    /\ \A k \in 1..Len(sp.chunks) :
           LET c == sp.chunks[k]
               lo == IF Boundary(c) - LookBack > c.start_pos
                     THEN Boundary(c) - LookBack ELSE c.start_pos
           IN Boundary(c) < Len(sp.text)
                  => EndsAfterNearest(c, TerminatorsIn(lo + 1, Boundary(c)))
    /\ ExampleChunksEndAtTerminator

\* a long text split with a terminator at the boundary index and others in the
\* look-back window: the first chunk is one character longer than chunk_size
SentenceCutWitness ==
    /\ sp.pc = "done"
    /\ Len(sp.text) > LookBack
    /\ Len(sp.chunks) >= 2
    /\ sp.chunks[1].end_pos = Boundary(sp.chunks[1]) + 1
    /\ TerminatorsIn(Boundary(sp.chunks[1]) - LookBack, Boundary(sp.chunks[1]) - 1) # {}

(* ====================== claims on the response text ==================== *)
\* C21: _repair_json_content applied to text that is already valid JSON returns
\* text that parses to an equal value: the same keys with the same string values.
RepairKeepsValidJson ==
    (js.op = "repair" /\ JsonLoads(js.content).ok)
        => JsonLoads(js.returned) = JsonLoads(js.content)

\* C24: when direct parsing fails, the repair is applied to the response with the
\* code fences stripped and the first balanced object cut out, so a fenced or
\* prose-wrapped object whose only defects are a trailing comma or an unquoted
\* key is parsed on the second attempt, to the value of the mended object.
RepairOnExtractedObject ==
    (js.op = "process" /\ js.repair_input # <<>>)
        => /\ js.repair_input = CleanedContent(js.content).text
           /\ ~js.result.is_error
           /\ js.result.data = JsonLoads(ObjectText(TRUE, js.input.title, FALSE))

(* ==================== claims on the Mermaid diagram ==================== *)
\* the nodes of the graph whose sanitized id is clean_id
NodesNamed(clean_id) ==
    {i \in 1..Len(mz.nodes) : CleanId(mz.nodes[i].id) = clean_id}

\* C22: in the Mermaid diagram every node has a sanitized identifier of its own:
\* two distinct nodes never get the same identifier, and each edge line names
\* exactly its two endpoints, i.e. each identifier on it belongs to one node,
\* the endpoint of the edge.
MermaidIdsDistinct ==
    mz.pc = "done" =>
        /\ \A i, j \in 1..Len(mz.node_lines) :
               i # j => mz.node_lines[i].clean_id # mz.node_lines[j].clean_id
        /\ \A e \in 1..Len(mz.edge_lines) :
               /\ \A i \in NodesNamed(mz.edge_lines[e].from_clean) :
                      mz.nodes[i].id = mz.edges[e].from
               /\ \A i \in NodesNamed(mz.edge_lines[e].to_clean) :
                      mz.nodes[i].id = mz.edges[e].to

(* ====================== claims on the attempt loop ===================== *)
\* the k-th gateway call (k from 1) returned a structure that was accepted
Accepted(k) ==
    mm.responses[k].outcome = "success" /\ ~mm.responses[k].rejected

\* C23: the attempt loop is bounded and sequential: at most three gateway calls
\* are made; attempt k (from 0) is made with temperature 0.1 + 0.1 k (in tenths:
\* 1 + k) and max_tokens 5000 + 1000 k; and an accepted structure is the answer
\* to the last call made.
AttemptLoopBounded ==
    /\ Len(mm.calls) <= MaxAttempts
    /\ Len(mm.responses) = Len(mm.calls)
    /\ \A k \in 1..Len(mm.calls) :
          /\ mm.calls[k].temperature = 1 + (k - 1)
          /\ mm.calls[k].max_tokens = 5000 + 1000 * (k - 1)
          /\ Accepted(k) => k = Len(mm.calls) /\ mm.pc = "done"

\* three calls were made, the first two were turned down and the third was
\* accepted and became the outline
AttemptLoopWitness ==
    /\ mm.pc = "done"
    /\ Len(mm.calls) = MaxAttempts
    /\ Accepted(MaxAttempts)
    /\ mm.result.kind = "outline"

(* ======================= claims on the node graph ====================== *)
\* the 'contains' edges that end at the node with this id
ContainsInto(id) ==
    {e \in 1..Len(mm.edges) : mm.edges[e].relationship = "contains" /\ mm.edges[e].to = id}

NodeIdsOf(nodes) == {nodes[i].id : i \in 1..Len(nodes)}

\* C25: in an outline the nodes and the 'contains' edges are a tree rooted at
\* 'root' of depth at most 3: the root has no incoming 'contains' edge, every
\* other node has exactly one, it comes from the node named by its parent_id,
\* and the node's level is its parent's plus one; and every edge, the
\* cross-connections too, has both ends among the nodes.
OutlineIsTree ==
    mm.result.kind = "outline" =>
        /\ \A i \in 1..Len(mm.nodes) :
              LET node == mm.nodes[i] IN
              /\ node.level <= 3
              /\ IF node.id = RootId
                 THEN node.node_type = "root" /\ ContainsInto(node.id) = {}
                 ELSE /\ Cardinality(ContainsInto(node.id)) = 1
                      /\ \A e \in ContainsInto(node.id) : mm.edges[e].from = node.parent_id
                      /\ \E j \in 1..Len(mm.nodes) :
                            /\ mm.nodes[j].id = node.parent_id
                            /\ node.level = mm.nodes[j].level + 1
        /\ \A e \in 1..Len(mm.edges) :
              {mm.edges[e].from, mm.edges[e].to} \subseteq NodeIdsOf(mm.nodes)

\* C26: the tree of a result is never empty: every result that is not an error
\* has at least one theme node.
OutlineHasTheme ==
    mm.result.kind = "outline" =>
        \E i \in 1..Len(mm.nodes) : mm.nodes[i].node_type = "theme"

(* ================= claims on the coverage of the chunks ================ *)
\* the index (from 0) lies in the span [start_pos, end_pos) of some chunk
InSomeSpan(index) ==
    \E c \in 1..Len(sp.chunks) :
        sp.chunks[c].start_pos <= index /\ index < sp.chunks[c].end_pos

\* C27: for chunk_size >= 1 and chunk_overlap >= 0 the chunking loses no text:
\* every iteration starts at a position no greater than the end of the span
\* before it, and once the function has returned every character of the text
\* that is not whitespace lies in the span of some chunk.
ChunksCoverText ==
    /\ [][(sp.pc = "loop" /\ sp.chunk_size >= 1 /\ sp'.iterations = sp.iterations + 1)
            => sp'.start <= SentenceEnd(sp.text, sp.start, sp.chunk_size)]_vars
    /\ []((sp.pc = "done" /\ sp.chunk_size >= 1) =>
            \A index \in 0..(Len(sp.text) - 1) :
                CharAt(sp.text, index) \notin Whitespace => InSomeSpan(index))

(* ====================== claims on the analysis cache =================== *)
\* C28: a cached analysis is never stale: get_cached_analysis(type) returns an
\* entry only if the entry was computed for that analysis type, under the
\* personality that is current, and from exactly the texts the documents of
\* the session have now.
CachedAnalysisFresh ==
    \A analysis_type \in AnalysisTypes :
        LET cached_data == GetCachedAnalysis(analysis_type) IN
        cached_data # NoAnalysis =>
            /\ cached_data.analysis_type = analysis_type
            /\ cached_data.personality = current_personality
            /\ cached_data.content = CombinedText(documents)

(* ================= claims on the index of the session ================== *)
\* the texts of the store's chunks of one document, in the order of the store
StoreTexts(name) ==
    LET own == SelectSeq(chunks, LAMBDA c : c.document_name = name)
    IN [i \in 1..Len(own) |-> own[i].text]

\* the texts of the chunks of the document of this name in the session, if it
\* is there and was processed successfully
SessionTexts(name) ==
    LET own == SelectSeq(documents, LAMBDA d : d.filename = name /\ d.success)
    IN IF own = <<>> THEN <<>>
       ELSE [i \in 1..Len(own[1].chunks) |-> own[1].chunks[i].text]

\* C29: after any sequence of upload_document and remove_document actions of
\* the app the store holds every chunk of every successfully processed
\* document of st.session_state.documents, and no chunk of any other document.
IndexMatchesSession ==
    \A name \in DocNames : StoreTexts(name) = SessionTexts(name)

(* ========================= claims on the sampling ====================== *)
\* C30: for a document text longer than max_length the text returned by
\* _intelligent_document_sampling, with its section-break markers, is at most
\* max_length characters long.
SamplingWithinBudget ==
    (smp.called /\ smp.doc_length > smp.max_length) => smp.returned_len <= smp.max_length

====
